---- MODULE Spec2Model ----
(***************************************************************************)
(* aes_frast: the AES key schedules and single-block transforms of         *)
(* src/src/aes_core.rs, modelled as the calls a caller makes on its own    *)
(* buffers.                                                                *)
(*                                                                         *)
(* Numbers.  A u8 is an integer 0..255.  A u32 does not fit TLC's signed   *)
(* 32-bit integers, so a u32 is held as the pair <<hi, lo>> of its 16-bit  *)
(* halves (value hi * 65536 + lo); shifts, masks, casts and XOR are        *)
(* computed on the halves.  Slices are sequences; Rust's index i is        *)
(* position i + 1.                                                         *)
(***************************************************************************)
EXTENDS Integers, Sequences, FiniteSets, TLC

(***************************************************************************)
(* Bit arithmetic                                                          *)
(***************************************************************************)
RECURSIVE BitXor(_, _, _)
BitXor(a, b, n) ==
  IF n = 0 THEN 0
  ELSE ((a + b) % 2) + 2 * BitXor(a \div 2, b \div 2, n - 1)

\* Tabulate(f) is the function f over 1..n as an explicit sequence
Tabulate(f) == f \o <<>>

\* a ^ b on u8, tabulated: XOR8[a + 1][b + 1]
XOR8 == Tabulate([a \in 1..256 |->
                    Tabulate([b \in 1..256 |-> BitXor(a - 1, b - 1, 8)])])

\* a ^ b on u8
Xor8(a, b) == XOR8[a + 1][b + 1]

\* a ^ b on 16-bit halves
Xor16(a, b) ==
  256 * XOR8[(a \div 256) + 1][(b \div 256) + 1]
    + XOR8[(a % 256) + 1][(b % 256) + 1]

\* a ^ b on u32
Xor32(a, b) == <<Xor16(a[1], b[1]), Xor16(a[2], b[2])>>

\* a ^ b ^ c ^ d ^ e on u8
Xor8x5(a, b, c, d, e) ==
  XOR8[XOR8[XOR8[XOR8[a + 1][b + 1] + 1][c + 1] + 1][d + 1] + 1][e + 1]

\* a ^ b ^ c ^ d ^ e on 16-bit halves
Xor16x5(a, b, c, d, e) ==
  256 * Xor8x5(a \div 256, b \div 256, c \div 256, d \div 256, e \div 256)
    + Xor8x5(a % 256, b % 256, c % 256, d % 256, e % 256)

\* a ^ b ^ c ^ d ^ e on u32
Xor32x5(a, b, c, d, e) ==
  <<Xor16x5(a[1], b[1], c[1], d[1], e[1]), Xor16x5(a[2], b[2], c[2], d[2], e[2])>>

\* (b as u32) << n, for n = 0, 8, 16, 24
Shl(b, n) ==
  CASE n = 24 -> <<b * 256, 0>>
    [] n = 16 -> <<b, 0>>
    [] n = 8  -> <<0, b * 256>>
    [] n = 0  -> <<0, b>>

\* (w >> n) as usize, for n = 8, 16, 24 (the result fits 24 bits)
Shr(w, n) ==
  CASE n = 24 -> w[1] \div 256
    [] n = 16 -> w[1]
    [] n = 8  -> w[1] * 256 + (w[2] \div 256)

\* (w as usize) & 0xFF and (w as u8): the low eight bits of a u32
Low8(w) == w[2] % 256

\* x & 0xFF and (x as u8) on a shifted value
AndFF(x) == x % 256

(***************************************************************************)
(* tables.rs (included at aes_core.rs:27): the constant tables             *)
(***************************************************************************)
SBOX ==
  <<
     99, 124, 119, 123, 242, 107, 111, 197,  48,   1, 103,  43, 254, 215, 171, 118,
    202, 130, 201, 125, 250,  89,  71, 240, 173, 212, 162, 175, 156, 164, 114, 192,
    183, 253, 147,  38,  54,  63, 247, 204,  52, 165, 229, 241, 113, 216,  49,  21,
      4, 199,  35, 195,  24, 150,   5, 154,   7,  18, 128, 226, 235,  39, 178, 117,
      9, 131,  44,  26,  27, 110,  90, 160,  82,  59, 214, 179,  41, 227,  47, 132,
     83, 209,   0, 237,  32, 252, 177,  91, 106, 203, 190,  57,  74,  76,  88, 207,
    208, 239, 170, 251,  67,  77,  51, 133,  69, 249,   2, 127,  80,  60, 159, 168,
     81, 163,  64, 143, 146, 157,  56, 245, 188, 182, 218,  33,  16, 255, 243, 210,
    205,  12,  19, 236,  95, 151,  68,  23, 196, 167, 126,  61, 100,  93,  25, 115,
     96, 129,  79, 220,  34,  42, 144, 136,  70, 238, 184,  20, 222,  94,  11, 219,
    224,  50,  58,  10,  73,   6,  36,  92, 194, 211, 172,  98, 145, 149, 228, 121,
    231, 200,  55, 109, 141, 213,  78, 169, 108,  86, 244, 234, 101, 122, 174,   8,
    186, 120,  37,  46,  28, 166, 180, 198, 232, 221, 116,  31,  75, 189, 139, 138,
    112,  62, 181, 102,  72,   3, 246,  14,  97,  53,  87, 185, 134, 193,  29, 158,
    225, 248, 152,  17, 105, 217, 142, 148, 155,  30, 135, 233, 206,  85,  40, 223,
    140, 161, 137,  13, 191, 230,  66, 104,  65, 153,  45,  15, 176,  84, 187,  22
  >>
SINV ==
  <<
     82,   9, 106, 213,  48,  54, 165,  56, 191,  64, 163, 158, 129, 243, 215, 251,
    124, 227,  57, 130, 155,  47, 255, 135,  52, 142,  67,  68, 196, 222, 233, 203,
     84, 123, 148,  50, 166, 194,  35,  61, 238,  76, 149,  11,  66, 250, 195,  78,
      8,  46, 161, 102,  40, 217,  36, 178, 118,  91, 162,  73, 109, 139, 209,  37,
    114, 248, 246, 100, 134, 104, 152,  22, 212, 164,  92, 204,  93, 101, 182, 146,
    108, 112,  72,  80, 253, 237, 185, 218,  94,  21,  70,  87, 167, 141, 157, 132,
    144, 216, 171,   0, 140, 188, 211,  10, 247, 228,  88,   5, 184, 179,  69,   6,
    208,  44,  30, 143, 202,  63,  15,   2, 193, 175, 189,   3,   1,  19, 138, 107,
     58, 145,  17,  65,  79, 103, 220, 234, 151, 242, 207, 206, 240, 180, 230, 115,
    150, 172, 116,  34, 231, 173,  53, 133, 226, 249,  55, 232,  28, 117, 223, 110,
     71, 241,  26, 113,  29,  41, 197, 137, 111, 183,  98,  14, 170,  24, 190,  27,
    252,  86,  62,  75, 198, 210, 121,  32, 154, 219, 192, 254, 120, 205,  90, 244,
     31, 221, 168,  51, 136,   7, 199,  49, 177,  18,  16,  89,  39, 128, 236,  95,
     96,  81, 127, 169,  25, 181,  74,  13,  45, 229, 122, 159, 147, 201, 156, 239,
    160, 224,  59,  77, 174,  42, 245, 176, 200, 235, 187,  60, 131,  83, 153,  97,
     23,  43,   4, 126, 186, 119, 214,  38, 225, 105,  20,  99,  85,  33,  12, 125
  >>

\* the round constants x^0 .. x^9 of GF(2^8)
RC == <<1, 2, 4, 8, 16, 32, 64, 128, 27, 54>>

\* multiplication by x in GF(2^8) modulo x^8 + x^4 + x^3 + x + 1
XTime(b) == IF b < 128 THEN 2 * b ELSE Xor8((2 * b) % 256, 27)

\* multiplication in GF(2^8) by the MixColumns and InvMixColumns coefficients
GMul(c, b) ==
  LET b2 == XTime(b)
      b4 == XTime(b2)
      b8 == XTime(b4)
  IN  CASE c = 1  -> b
        [] c = 2  -> b2
        [] c = 3  -> Xor8(b2, b)
        [] c = 9  -> Xor8(b8, b)
        [] c = 11 -> Xor8(b8, Xor8(b2, b))
        [] c = 13 -> Xor8(b8, Xor8(b4, b))
        [] c = 14 -> Xor8(b8, Xor8(b4, b2))

\* Put four u8 in big-endian order to get a u32
four_u8_to_u32(b0, b1, b2, b3) ==
  Xor32(Xor32(Xor32(Shl(b0, 24), Shl(b1, 16)), Shl(b2, 8)), Shl(b3, 0))

\* encryption T-tables: S-box followed by one column of MixColumns
TE0 == Tabulate([i \in 1..256 |->
         four_u8_to_u32(GMul(2, SBOX[i]), SBOX[i], SBOX[i], GMul(3, SBOX[i]))])

TE1 == Tabulate([i \in 1..256 |->
         four_u8_to_u32(GMul(3, SBOX[i]), GMul(2, SBOX[i]), SBOX[i], SBOX[i])])

TE2 == Tabulate([i \in 1..256 |->
         four_u8_to_u32(SBOX[i], GMul(3, SBOX[i]), GMul(2, SBOX[i]), SBOX[i])])

TE3 == Tabulate([i \in 1..256 |->
         four_u8_to_u32(SBOX[i], SBOX[i], GMul(3, SBOX[i]), GMul(2, SBOX[i]))])

\* decryption T-tables: inverse S-box followed by one column of InvMixColumns
TD0 == Tabulate([i \in 1..256 |->
         four_u8_to_u32(GMul(14, SINV[i]), GMul(9, SINV[i]),
                        GMul(13, SINV[i]), GMul(11, SINV[i]))])

TD1 == Tabulate([i \in 1..256 |->
         four_u8_to_u32(GMul(11, SINV[i]), GMul(14, SINV[i]),
                        GMul(9, SINV[i]), GMul(13, SINV[i]))])

TD2 == Tabulate([i \in 1..256 |->
         four_u8_to_u32(GMul(13, SINV[i]), GMul(11, SINV[i]),
                        GMul(14, SINV[i]), GMul(9, SINV[i]))])

TD3 == Tabulate([i \in 1..256 |->
         four_u8_to_u32(GMul(9, SINV[i]), GMul(13, SINV[i]),
                        GMul(11, SINV[i]), GMul(14, SINV[i]))])

(***************************************************************************)
(* Slices                                                                  *)
(***************************************************************************)
\* slice[i] with Rust's zero-based index
At(s, i) == s[i + 1]

\* slice[i] = v
Put(s, i, v) == [s EXCEPT ![i + 1] = v]

\* e, once v has been evaluated: the program computes v before it goes on
\* (TLC would otherwise defer the evaluation of v into that of e)
Then(v, e) == IF v = v THEN e ELSE e

\* [0; n]
ZeroWord == <<0, 0>>

Zeros32(n) == Tabulate([i \in 1..n |-> ZeroWord])

Zeros8(n) == Tabulate([i \in 1..n |-> 0])

(***************************************************************************)
(* Key schedule                                                            *)
(***************************************************************************)
N_SUBKEYS_128BIT == 44

N_SUBKEYS_192BIT == 52

N_SUBKEYS_256BIT == 60

\* The g function used in key schedule rounds.
round_g_function(word, round) ==
  four_u8_to_u32(Xor8(At(SBOX, AndFF(Shr(word, 16))), At(RC, round)),
                 At(SBOX, AndFF(Shr(word, 8))),
                 At(SBOX, Low8(word)),
                 At(SBOX, Shr(word, 24)))

\* the h function with the byte rotation of the g function
round_h_rotated(word) ==
  four_u8_to_u32(At(SBOX, AndFF(Shr(word, 16))),
                 At(SBOX, AndFF(Shr(word, 8))),
                 At(SBOX, Low8(word)),
                 At(SBOX, Shr(word, 24)))

\* The h function used in 256bit key schedule rounds.
round_h_function(word) ==
  four_u8_to_u32(At(SBOX, Shr(word, 24)),
                 At(SBOX, AndFF(Shr(word, 16))),
                 At(SBOX, AndFF(Shr(word, 8))),
                 At(SBOX, Low8(word)))

\* for i in 0..nk { keys[i] = four_u8_to_u32!(origin[4*i] .. origin[4*i+3]) }
\* from iteration i on; an origin index out of range panics before the
\* assignment of that iteration.
RECURSIVE load_origin(_, _, _, _)
load_origin(origin, keys, i, nk) ==
  Then(keys,
       IF i = nk THEN [panic |-> FALSE, keys |-> keys]
       ELSE IF 4 * i + 3 >= Len(origin) THEN [panic |-> TRUE, keys |-> keys]
       ELSE load_origin(origin,
                        Put(keys, i, four_u8_to_u32(At(origin, 4 * i),
                                                    At(origin, 4 * i + 1),
                                                    At(origin, 4 * i + 2),
                                                    At(origin, 4 * i + 3))),
                        i + 1, nk))

\* keys[d] = keys[a] ^ round_g_function!(keys[b], round)
assign_g(keys, d, a, b, round) ==
  Put(keys, d, Xor32(At(keys, a), round_g_function(At(keys, b), round)))

\* keys[d] = keys[a] ^ round_h_function!(keys[b])
assign_h(keys, d, a, b) ==
  Put(keys, d, Xor32(At(keys, a), round_h_function(At(keys, b))))

\* $keys[d] ^= $keys[a] ^ $keys[b]: the word is read before it is written
assign_x_accumulate(keys, d, a, b) ==
  Put(keys, d, Xor32(At(keys, d), Xor32(At(keys, a), At(keys, b))))

\* keys[d] = keys[a] ^ keys[b]
assign_x(keys, d, a, b) == Put(keys, d, Xor32(At(keys, a), At(keys, b)))

\* one assignment to $keys[w] of a key schedule: the part of the macro it
\* is in (at) and the loop counter i there, the indices at which its
\* right-hand side reads $keys (r), RC (rc) and $origin (o), in program
\* order.  round_g_function! and round_h_function! take $word as an
\* expression and expand it four times, so $keys[b] is indexed four times.
key_step(at, i, w, r, rc, o) ==
  [at |-> at, i |-> i, w |-> w, r |-> r, rc |-> rc, o |-> o]

\* the assignments of `for i in 0..nk { $keys[i] = four_u8_to_u32!(..) }`
\* that complete: iteration i does if $origin[4 * i + 3] exists
load_steps(origin, nk) ==
  Tabulate([j \in 1..(IF Len(origin) \div 4 < nk THEN Len(origin) \div 4 ELSE nk) |->
    key_step("load", j - 1, j - 1, <<>>, <<>>,
             <<4 * (j - 1), 4 * (j - 1) + 1, 4 * (j - 1) + 2, 4 * (j - 1) + 3>>)])

\* the four assignments of iteration i of `for i in 0..10`
round_128_steps(i) ==
  << key_step("loop", i, 4 * i + 4,
              <<4 * i, 4 * i + 3, 4 * i + 3, 4 * i + 3, 4 * i + 3>>, <<i>>, <<>>),
     key_step("loop", i, 4 * i + 5, <<4 * i + 1, 4 * i + 4>>, <<>>, <<>>),
     key_step("loop", i, 4 * i + 6, <<4 * i + 2, 4 * i + 5>>, <<>>, <<>>),
     key_step("loop", i, 4 * i + 7, <<4 * i + 3, 4 * i + 6>>, <<>>, <<>>) >>

\* the assignments of a 128bit key schedule whose loop is `for i in 0..11`
expand_128_steps_11 ==
  Tabulate([j \in 1..(11 * 4) |-> round_128_steps((j - 1) \div 4)[((j - 1) % 4) + 1]])

\* the assignments of the 128bit key schedule after the loading of origin
expand_128_steps ==
  Tabulate([j \in 1..(10 * 4) |-> round_128_steps((j - 1) \div 4)[((j - 1) % 4) + 1]])

\* the six assignments of iteration i of `for i in 0..7`
round_192_steps(i) ==
  << key_step("loop", i, 6 * i + 6,
              <<6 * i, 6 * i + 5, 6 * i + 5, 6 * i + 5, 6 * i + 5>>, <<i>>, <<>>),
     key_step("loop", i, 6 * i + 7, <<6 * i + 1, 6 * i + 6>>, <<>>, <<>>),
     key_step("loop", i, 6 * i + 8, <<6 * i + 2, 6 * i + 7>>, <<>>, <<>>),
     key_step("loop", i, 6 * i + 9, <<6 * i + 3, 6 * i + 8>>, <<>>, <<>>),
     key_step("loop", i, 6 * i + 10, <<6 * i + 4, 6 * i + 9>>, <<>>, <<>>),
     key_step("loop", i, 6 * i + 11, <<6 * i + 5, 6 * i + 10>>, <<>>, <<>>) >>

\* the assignments of a 192bit key schedule that ends with its loop
expand_192_steps_untailed ==
  Tabulate([j \in 1..(7 * 6) |-> round_192_steps((j - 1) \div 6)[((j - 1) % 6) + 1]])

\* the assignments of the 192bit key schedule after the loading of origin:
\* the loop, then $keys[48] .. $keys[51]
expand_192_steps ==
  Tabulate([j \in 1..(7 * 6) |-> round_192_steps((j - 1) \div 6)[((j - 1) % 6) + 1]])
    \o << key_step("tail", 7, 48, <<42, 47, 47, 47, 47>>, <<7>>, <<>>),
          key_step("tail", 7, 49, <<43, 48>>, <<>>, <<>>),
          key_step("tail", 7, 50, <<44, 49>>, <<>>, <<>>),
          key_step("tail", 7, 51, <<45, 50>>, <<>>, <<>>) >>

\* the eight assignments of iteration i of `for i in 0..6`
round_256_steps(i) ==
  << key_step("loop", i, 8 * i + 8,
              <<8 * i, 8 * i + 7, 8 * i + 7, 8 * i + 7, 8 * i + 7>>, <<i>>, <<>>),
     key_step("loop", i, 8 * i + 9, <<8 * i + 1, 8 * i + 8>>, <<>>, <<>>),
     key_step("loop", i, 8 * i + 10, <<8 * i + 2, 8 * i + 9>>, <<>>, <<>>),
     key_step("loop", i, 8 * i + 11, <<8 * i + 3, 8 * i + 10>>, <<>>, <<>>),
     key_step("loop", i, 8 * i + 12,
              <<8 * i + 4, 8 * i + 11, 8 * i + 11, 8 * i + 11, 8 * i + 11>>,
              <<>>, <<>>),
     key_step("loop", i, 8 * i + 13, <<8 * i + 5, 8 * i + 12>>, <<>>, <<>>),
     key_step("loop", i, 8 * i + 14, <<8 * i + 6, 8 * i + 13>>, <<>>, <<>>),
     key_step("loop", i, 8 * i + 15, <<8 * i + 7, 8 * i + 14>>, <<>>, <<>>) >>

\* the assignments of the 256bit key schedule after the loading of origin:
\* the loop, then $keys[56] .. $keys[59]
expand_256_steps ==
  Tabulate([j \in 1..(6 * 8) |-> round_256_steps((j - 1) \div 8)[((j - 1) % 8) + 1]])
    \o << key_step("tail", 6, 56, <<48, 55, 55, 55, 55>>, <<6>>, <<>>),
          key_step("tail", 6, 57, <<49, 56>>, <<>>, <<>>),
          key_step("tail", 6, 58, <<50, 57>>, <<>>, <<>>),
          key_step("tail", 6, 59, <<51, 58>>, <<>>, <<>>) >>

\* the assignments `for i in 4..($length-4) { $keys[i] = .. }` of
\* dkey_mixcolumn!, each reading $keys[i] four times
dkey_steps(length) ==
  Tabulate([j \in 1..(length - 8) |->
    key_step("dkey", j + 3, j + 3, <<j + 3, j + 3, j + 3, j + 3>>, <<>>, <<>>)])

\* the indices into a table of 256 entries that the code computes from the
\* words q: (w >> 24) as usize, ((w >> 16) as usize) & 0xFF,
\* ((w >> 8) as usize) & 0xFF and (w as usize) & 0xFF of each word w
word_lookups(q) ==
  UNION {{Shr(q[k], 24), AndFF(Shr(q[k], 16)), AndFF(Shr(q[k], 8)), Low8(q[k])} :
           k \in DOMAIN q}

\* the table indices of the assignments ex of a schedule macro that left
\* keys: those through round_g_function! or round_h_function!, which take
\* the four S-box indices from $keys[b], the word the assignment indexes
\* four times; $keys[b] was assigned earlier in the call, and once
schedule_lookups(keys, ex) ==
  UNION {word_lookups(<<At(keys, ex[j].r[2])>>) :
           j \in {n \in DOMAIN ex : Len(ex[n].r) = 5}}

\* the table indices of dkey_mixcolumn! on keys: the four S-box indices
\* from each $keys[i], and the bytes SBOX gives there as indices of TD0..TD3
dkey_lookups(keys, length) ==
  UNION {s \cup {At(SBOX, x) : x \in s} :
           s \in {word_lookups(<<At(keys, i)>>) : i \in 4..(length - 5)}}

\* the outcome r of a schedule macro, with the assignments it made: those
\* of the loading (ld) and, unless the loading panicked, the later ones (ex)
with_steps(r, ld, ex) ==
  [panic |-> r.panic, keys |-> r.keys,
   steps |-> IF r.panic THEN ld ELSE ld \o ex,
   lookups |-> IF r.panic THEN {} ELSE schedule_lookups(r.keys, ex)]

\* one iteration of the loop `for i in 0..10` of the 128bit key schedule
round_128(keys, i) ==
  assign_x(assign_x(assign_x(assign_g(keys,
      4 * i + 4, 4 * i, 4 * i + 3, i),
      4 * i + 5, 4 * i + 1, 4 * i + 4),
      4 * i + 6, 4 * i + 2, 4 * i + 5),
      4 * i + 7, 4 * i + 3, 4 * i + 6)

RECURSIVE loop_128(_, _)
loop_128(keys, i) ==
  Then(keys, IF i = 10 THEN keys ELSE loop_128(round_128(keys, i), i + 1))

\* the rounds of the 128bit key schedule, once origin is loaded
expand_128(l) ==
  IF l.panic THEN l ELSE [panic |-> FALSE, keys |-> loop_128(l.keys, 0)]

\* the 128bit key schedule without its assertion on the buffer length
key_schedule_128_unsized(origin, keys) ==
  with_steps(expand_128(load_origin(origin, keys, 0, 4)),
             load_steps(origin, 4), expand_128_steps)

\* 128bit key schedule
key_schedule_128_function(origin, keys) ==
  IF Len(keys) # N_SUBKEYS_128BIT
  THEN [panic |-> TRUE, keys |-> keys, steps |-> <<>>, lookups |-> {}]
  ELSE with_steps(expand_128(load_origin(origin, keys, 0, 4)),
                  load_steps(origin, 4), expand_128_steps)

\* one iteration of the loop `for i in 0..7` of the 192bit key schedule
round_192(keys, i) ==
  assign_x(assign_x(assign_x(assign_x(assign_x(assign_g(keys,
      6 * i + 6, 6 * i, 6 * i + 5, i),
      6 * i + 7, 6 * i + 1, 6 * i + 6),
      6 * i + 8, 6 * i + 2, 6 * i + 7),
      6 * i + 9, 6 * i + 3, 6 * i + 8),
      6 * i + 10, 6 * i + 4, 6 * i + 9),
      6 * i + 11, 6 * i + 5, 6 * i + 10)

RECURSIVE loop_192(_, _)
loop_192(keys, i) ==
  Then(keys, IF i = 7 THEN keys ELSE loop_192(round_192(keys, i), i + 1))

\* the four assignments keys[48] .. keys[51] after the loop
tail_192(keys) ==
  assign_x(assign_x(assign_x(assign_g(keys, 48, 42, 47, 7),
      49, 43, 48),
      50, 44, 49),
      51, 45, 50)

\* the rounds of the 192bit key schedule, once origin is loaded
expand_192(l) ==
  IF l.panic THEN l
  ELSE [panic |-> FALSE, keys |-> tail_192(loop_192(l.keys, 0))]

\* 192bit key schedule
key_schedule_192_function(origin, keys) ==
  IF Len(keys) # N_SUBKEYS_192BIT
  THEN [panic |-> TRUE, keys |-> keys, steps |-> <<>>, lookups |-> {}]
  ELSE with_steps(expand_192(load_origin(origin, keys, 0, 6)),
                  load_steps(origin, 6), expand_192_steps)

\* one iteration of the loop `for i in 0..6` of the 256bit key schedule
round_256(keys, i) ==
  assign_x(assign_x(assign_x(assign_h(
  assign_x(assign_x(assign_x(assign_g(keys,
      8 * i + 8, 8 * i, 8 * i + 7, i),
      8 * i + 9, 8 * i + 1, 8 * i + 8),
      8 * i + 10, 8 * i + 2, 8 * i + 9),
      8 * i + 11, 8 * i + 3, 8 * i + 10),
      8 * i + 12, 8 * i + 4, 8 * i + 11),
      8 * i + 13, 8 * i + 5, 8 * i + 12),
      8 * i + 14, 8 * i + 6, 8 * i + 13),
      8 * i + 15, 8 * i + 7, 8 * i + 14)

RECURSIVE loop_256(_, _)
loop_256(keys, i) ==
  Then(keys, IF i = 6 THEN keys ELSE loop_256(round_256(keys, i), i + 1))

\* the four assignments keys[56] .. keys[59] after the loop
tail_256(keys) ==
  assign_x(assign_x(assign_x(assign_g(keys, 56, 48, 55, 6),
      57, 49, 56),
      58, 50, 57),
      59, 51, 58)

\* the rounds of the 256bit key schedule, once origin is loaded
expand_256(l) ==
  IF l.panic THEN l
  ELSE [panic |-> FALSE, keys |-> tail_256(loop_256(l.keys, 0))]

\* the 256bit key schedule asking for 4 * (8 + 6 + 4) = 72 words
key_schedule_256_oversized(origin, keys) ==
  IF Len(keys) # 72
  THEN [panic |-> TRUE, keys |-> keys, steps |-> <<>>, lookups |-> {}]
  ELSE with_steps(expand_256(load_origin(origin, keys, 0, 8)),
                  load_steps(origin, 8), expand_256_steps)

\* 256bit key schedule
key_schedule_256_function(origin, keys) ==
  IF Len(keys) # N_SUBKEYS_256BIT
  THEN [panic |-> TRUE, keys |-> keys, steps |-> <<>>, lookups |-> {}]
  ELSE with_steps(expand_256(load_origin(origin, keys, 0, 8)),
                  load_steps(origin, 8), expand_256_steps)

\* the word of dkey_mixcolumn with the tables indexed by the bytes of the
\* word themselves, without the S-box
dkey_word_direct(w) ==
  Xor32(Xor32(Xor32(At(TD0, Shr(w, 24)), At(TD1, AndFF(Shr(w, 16)))),
              At(TD2, AndFF(Shr(w, 8)))),
        At(TD3, Low8(w)))

\* the word dkey_mixcolumn stores at keys[i]
dkey_word(w) ==
  Xor32(Xor32(Xor32(At(TD0, At(SBOX, Shr(w, 24))), At(TD1, At(SBOX, AndFF(Shr(w, 16))))),
              At(TD2, At(SBOX, AndFF(Shr(w, 8))))),
        At(TD3, At(SBOX, Low8(w))))

\* dkey_mixcolumn with the loop `for i in 0..length`
dkey_mixcolumn_whole(keys, length) ==
  Tabulate([j \in 1..Len(keys) |->
              IF j - 1 < length THEN dkey_word(keys[j]) ELSE keys[j]])

\* dkey_mixcolumn with a loop that never runs
dkey_mixcolumn_skipped(keys, length) == keys

\* The keys for decryption need extra transform -- the inverse MixColumn:
\* for i in 4..(length-4) { keys[i] = ... keys[i] ... }
dkey_mixcolumn(keys, length) ==
  Tabulate([j \in 1..Len(keys) |->
              IF 4 <= j - 1 /\ j - 1 < length - 4 THEN dkey_word(keys[j])
              ELSE keys[j]])

(***************************************************************************)
(* Key schedule entry points.  Each returns the buffer as the call leaves  *)
(* it and whether the call panicked.                                       *)
(***************************************************************************)
Panicked(buffer) ==
  [panic |-> TRUE, keys |-> buffer, steps |-> <<>>, lookups |-> {}]

\* the schedule macro followed by dkey_mixcolumn!(buffer, length)
then_dkey(r, length) ==
  IF r.panic THEN r
  ELSE [panic |-> FALSE, keys |-> dkey_mixcolumn(r.keys, length),
        steps |-> r.steps \o dkey_steps(length),
        lookups |-> r.lookups \cup dkey_lookups(r.keys, length)]

key_schedule_encrypt_auto(origin, buffer) ==
  CASE Len(origin) = 16 -> key_schedule_128_function(origin, buffer)
    [] Len(origin) = 24 -> key_schedule_192_function(origin, buffer)
    [] Len(origin) = 32 -> key_schedule_256_function(origin, buffer)
    [] OTHER -> Panicked(buffer)

\* key_schedule_encrypt128 without its assertion on the key length
key_schedule_encrypt128_unasserted(origin, buffer) ==
  key_schedule_128_function(origin, buffer)

key_schedule_encrypt128(origin, buffer) ==
  IF Len(origin) # 128 \div 8 THEN Panicked(buffer)
  ELSE key_schedule_128_function(origin, buffer)

key_schedule_encrypt192(origin, buffer) ==
  IF Len(origin) # 192 \div 8 THEN Panicked(buffer)
  ELSE key_schedule_192_function(origin, buffer)

key_schedule_encrypt256(origin, buffer) ==
  IF Len(origin) # 256 \div 8 THEN Panicked(buffer)
  ELSE key_schedule_256_function(origin, buffer)

\* key_schedule_decrypt_auto without the dkey_mixcolumn! pass
key_schedule_decrypt_auto_unmixed(origin, buffer) ==
  CASE Len(origin) = 16 -> key_schedule_128_function(origin, buffer)
    [] Len(origin) = 24 -> key_schedule_192_function(origin, buffer)
    [] Len(origin) = 32 -> key_schedule_256_function(origin, buffer)
    [] OTHER -> Panicked(buffer)

key_schedule_decrypt_auto(origin, buffer) ==
  CASE Len(origin) = 16 ->
         then_dkey(key_schedule_128_function(origin, buffer), N_SUBKEYS_128BIT)
    [] Len(origin) = 24 ->
         then_dkey(key_schedule_192_function(origin, buffer), N_SUBKEYS_192BIT)
    [] Len(origin) = 32 ->
         then_dkey(key_schedule_256_function(origin, buffer), N_SUBKEYS_256BIT)
    [] OTHER -> Panicked(buffer)

key_schedule_decrypt128(origin, buffer) ==
  IF Len(origin) # 128 \div 8 THEN Panicked(buffer)
  ELSE then_dkey(key_schedule_128_function(origin, buffer), N_SUBKEYS_128BIT)

key_schedule_decrypt192(origin, buffer) ==
  IF Len(origin) # 192 \div 8 THEN Panicked(buffer)
  ELSE then_dkey(key_schedule_192_function(origin, buffer), N_SUBKEYS_192BIT)

\* key_schedule_decrypt256 passing the 192bit length to dkey_mixcolumn!
key_schedule_decrypt256_mix192(origin, buffer) ==
  IF Len(origin) # 256 \div 8 THEN Panicked(buffer)
  ELSE then_dkey(key_schedule_256_function(origin, buffer), N_SUBKEYS_192BIT)

key_schedule_decrypt256(origin, buffer) ==
  IF Len(origin) # 256 \div 8 THEN Panicked(buffer)
  ELSE then_dkey(key_schedule_256_function(origin, buffer), N_SUBKEYS_256BIT)

(***************************************************************************)
(* Block transforms.  The macros name their buffers; mem maps each buffer  *)
(* name to its contents, so that an in-place call, which passes one buffer *)
(* as both $input and $output, reads and writes the same contents.         *)
(***************************************************************************)
\* the four words loaded from $input and XORed with keys[k0 .. k0+3]
load_block(inp, keys, k0) ==
  << Xor32(four_u8_to_u32(At(inp, 0), At(inp, 1), At(inp, 2), At(inp, 3)),
           At(keys, k0)),
     Xor32(four_u8_to_u32(At(inp, 4), At(inp, 5), At(inp, 6), At(inp, 7)),
           At(keys, k0 + 1)),
     Xor32(four_u8_to_u32(At(inp, 8), At(inp, 9), At(inp, 10), At(inp, 11)),
           At(keys, k0 + 2)),
     Xor32(four_u8_to_u32(At(inp, 12), At(inp, 13), At(inp, 14), At(inp, 15)),
           At(keys, k0 + 3)) >>

\* At(TE0, a >> 24) ^ At(TE1, (b >> 16) & 0xFF) ^ At(TE2, (c >> 8) & 0xFF) ^ At(TE3, d & 0xFF) ^ k
te_word(a, b, c, d, k) ==
  Xor32x5(At(TE0, Shr(a, 24)), At(TE1, AndFF(Shr(b, 16))),
          At(TE2, AndFF(Shr(c, 8))), At(TE3, Low8(d)), k)

\* an encryption round that reads every word at its own column
enc_round_unshifted(w, keys, k0) ==
  << te_word(w[1], w[1], w[1], w[1], At(keys, k0)),
     te_word(w[2], w[2], w[2], w[2], At(keys, k0 + 1)),
     te_word(w[3], w[3], w[3], w[3], At(keys, k0 + 2)),
     te_word(w[4], w[4], w[4], w[4], At(keys, k0 + 3)) >>

\* one fused encryption round: the words w XORed into keys[k0 .. k0+3]
enc_round(w, keys, k0) ==
  << te_word(w[1], w[2], w[3], w[4], At(keys, k0)),
     te_word(w[2], w[3], w[4], w[1], At(keys, k0 + 1)),
     te_word(w[3], w[4], w[1], w[2], At(keys, k0 + 2)),
     te_word(w[4], w[1], w[2], w[3], At(keys, k0 + 3)) >>

\* for i in 1..inner_rounds { wa = round(wb, keys[8i..]); wb = round(wa, keys[8i+4..]) }
\* from iteration i on, wb being the words the iteration starts with
RECURSIVE enc_loop(_, _, _, _)
enc_loop(wb, keys, i, inner_rounds) ==
  Then(wb,
       IF i >= inner_rounds THEN wb
       ELSE enc_loop(enc_round(enc_round(wb, keys, 8 * i), keys, 8 * i + 4),
                     keys, i + 1, inner_rounds))

\* the sixteen bytes of the final encryption round, output[0] first
enc_final(wb, keys, keys_length) ==
  LET k0 == At(keys, keys_length - 4)
      k1 == At(keys, keys_length - 3)
      k2 == At(keys, keys_length - 2)
      k3 == At(keys, keys_length - 1)
  IN  << Xor8(At(SBOX, Shr(wb[1], 24)),        AndFF(Shr(k0, 24))),
         Xor8(At(SBOX, AndFF(Shr(wb[2], 16))), AndFF(Shr(k0, 16))),
         Xor8(At(SBOX, AndFF(Shr(wb[3], 8))),  AndFF(Shr(k0, 8))),
         Xor8(At(SBOX, Low8(wb[4])),           Low8(k0)),
         Xor8(At(SBOX, Shr(wb[2], 24)),        AndFF(Shr(k1, 24))),
         Xor8(At(SBOX, AndFF(Shr(wb[3], 16))), AndFF(Shr(k1, 16))),
         Xor8(At(SBOX, AndFF(Shr(wb[4], 8))),  AndFF(Shr(k1, 8))),
         Xor8(At(SBOX, Low8(wb[1])),           Low8(k1)),
         Xor8(At(SBOX, Shr(wb[3], 24)),        AndFF(Shr(k2, 24))),
         Xor8(At(SBOX, AndFF(Shr(wb[4], 16))), AndFF(Shr(k2, 16))),
         Xor8(At(SBOX, AndFF(Shr(wb[1], 8))),  AndFF(Shr(k2, 8))),
         Xor8(At(SBOX, Low8(wb[2])),           Low8(k2)),
         Xor8(At(SBOX, Shr(wb[4], 24)),        AndFF(Shr(k3, 24))),
         Xor8(At(SBOX, AndFF(Shr(wb[1], 16))), AndFF(Shr(k3, 16))),
         Xor8(At(SBOX, AndFF(Shr(wb[2], 8))),  AndFF(Shr(k3, 8))),
         Xor8(At(SBOX, Low8(wb[3])),           Low8(k3)) >>

\* the sixteen stores as $output[i] ^= ..: the byte is read before it is
\* written
store_desc_accumulate(mem, output, bytes) ==
  IF 15 >= Len(mem[output]) THEN [panic |-> TRUE, mem |-> mem]
  ELSE [panic |-> FALSE,
        mem |-> [mem EXCEPT ![output] =
                   Tabulate([i \in 1..Len(mem[output]) |->
                     IF i <= 16 THEN Xor8(mem[output][i], bytes[i])
                     ELSE mem[output][i]])]]

\* the sixteen stores in ascending order, $output[0] = .. first: a buffer
\* too short panics at its first missing index, the bytes below it written
store_asc(mem, output, bytes) ==
  IF 15 >= Len(mem[output])
  THEN [panic |-> TRUE,
        mem |-> [mem EXCEPT ![output] =
                   Tabulate([p \in 1..Len(@) |-> bytes[p]])]]
  ELSE [panic |-> FALSE,
        mem |-> [mem EXCEPT ![output] =
                   Tabulate([p \in 1..Len(@) |->
                               IF p <= 16 THEN bytes[p] ELSE @[p]])]]

\* $output[15] = bytes[15]; $output[14] = bytes[14]; .. $output[0] = bytes[0]:
\* the first write is the one at the highest index, so a buffer too short
\* for it panics there, before any byte is written.
store_desc(mem, output, bytes) ==
  IF 15 >= Len(mem[output]) THEN [panic |-> TRUE, mem |-> mem]
  ELSE [panic |-> FALSE,
        mem |-> [mem EXCEPT ![output] =
                   Tabulate([p \in 1..Len(@) |->
                               IF p <= 16 THEN bytes[p] ELSE @[p]])]]

\* the reads $keys[k0], $keys[k0 + 1], $keys[k0 + 2], $keys[k0 + 3] of one
\* round (wa0 .. wa3 or wb0 .. wb3), in program order, each with the number
\* of its round: 0 for the whitening, then "round 1", the "even-number" and
\* "odd-number rounds" of the loop, and the "final round"
group_reads(round, k0) ==
  << <<round, k0>>, <<round, k0 + 1>>, <<round, k0 + 2>>, <<round, k0 + 3>> >>

\* the reads of a loop `for i in 0..inner_rounds` of encryption_function!:
\* its first iteration reads $keys[0] .. $keys[7] again
enc_loop_reads_from0(i, inner_rounds) ==
  group_reads(0, 0) \o group_reads(1, 4)
    \o Tabulate([j \in 1..(8 * (inner_rounds - i)) |->
                   <<2 * i + ((j - 1) \div 4), 8 * i + j - 1>>])

\* the reads of `for i in 1..inner_rounds` of encryption_function!, from
\* iteration i on: $keys[8 * i] .. $keys[8 * i + 7]
RECURSIVE enc_loop_reads(_, _)
enc_loop_reads(i, inner_rounds) ==
  IF i >= inner_rounds THEN <<>>
  ELSE group_reads(2 * i, 8 * i) \o group_reads(2 * i + 1, 8 * i + 4)
         \o enc_loop_reads(i + 1, inner_rounds)

\* the reads of `for i in 1..inner_rounds` of decryption_function!, from
\* iteration i on: $keys[keys_length - 4 - 8 * i] .. [keys_length - 1 - 8 * i],
\* then $keys[keys_length - 8 - 8 * i] .. [keys_length - 5 - 8 * i]
RECURSIVE dec_loop_reads(_, _, _)
dec_loop_reads(i, inner_rounds, keys_length) ==
  IF i >= inner_rounds THEN <<>>
  ELSE group_reads(2 * i, keys_length - 4 - 8 * i)
         \o group_reads(2 * i + 1, keys_length - 8 - 8 * i)
         \o dec_loop_reads(i + 1, inner_rounds, keys_length)

\* the reads of the final round: the statements $output[15] = .. down to
\* $output[0] = .. index $keys[top] four times, then $keys[top - 1],
\* $keys[top - 2] and $keys[top - 3] four times each.  The right-hand side
\* of an assignment is evaluated before the place it assigns to, so an
\* $output too short for $output[15] ends the call after the first read.
final_reads(round, top, output_length) ==
  Tabulate([j \in 1..(IF 15 >= output_length THEN 1 ELSE 16) |->
              <<round, top - ((j - 1) \div 4)>>])

\* the indices at which encryption_function! reads $keys, in program
\* order, each with the number of the round that reads it
encryption_reads(output_length, inner_rounds, keys_length) ==
  group_reads(0, 0) \o group_reads(1, 4) \o enc_loop_reads(1, inner_rounds)
    \o final_reads(2 * inner_rounds, keys_length - 1, output_length)

\* the indices at which decryption_function! reads $keys, in program order
decryption_reads(output_length, inner_rounds, keys_length) ==
  group_reads(0, keys_length - 4) \o group_reads(1, keys_length - 8)
    \o dec_loop_reads(1, inner_rounds, keys_length)
    \o final_reads(2 * inner_rounds, 3, output_length)

\* the words at the start of every round of encryption_function! from the
\* one that reads $keys[k0] on: w, then what each round_function leaves,
\* wb and wa in turn; the last are the words the final round reads
RECURSIVE enc_words(_, _, _, _)
enc_words(w, keys, k0, top) ==
  Then(w,
       IF k0 >= top THEN <<w>>
       ELSE <<w>> \o enc_words(enc_round(w, keys, k0), keys, k0 + 4, top))

\* the table indices of encryption_function!: the four of each word at
\* the start of round 1 and of the rounds of `for i in 1..inner_rounds`,
\* which read $keys[4 .. 8 * inner_rounds - 1], and those of the final
\* round, of which only (wb2 as usize) & 0xFF, in the right side of
\* $output[15], is computed if the output has no index 15
encryption_lookups(wa, keys, inner_rounds, output_length) ==
  UNION {UNION {word_lookups(ws[n]) : n \in 1..(Len(ws) - 1)}
           \cup (IF 15 >= output_length THEN {Low8(ws[Len(ws)][3])}
                 ELSE word_lookups(ws[Len(ws)])) :
           ws \in {enc_words(wa, keys, 4, 8 * inner_rounds)}}

\* the outcome r of a block transform, with the reads of $keys it made
with_reads(r, rd) == [panic |-> r.panic, mem |-> r.mem, reads |-> rd]

\* Encrypt a block.
encryption_function(mem, input, output, keys, inner_rounds, keys_length) ==
  IF Len(mem[input]) # 128 \div 8
  THEN [panic |-> TRUE, mem |-> mem, reads |-> <<>>]
  ELSE IF Len(mem[keys]) # keys_length
  THEN [panic |-> TRUE, mem |-> mem, reads |-> <<>>]
  ELSE with_reads(
         store_desc(mem, output,
           enc_final(
             enc_loop(enc_round(load_block(mem[input], mem[keys], 0), mem[keys], 4),
                      mem[keys], 1, inner_rounds),
             mem[keys], keys_length)),
         encryption_reads(Len(mem[output]), inner_rounds, keys_length))

\* At(TD0, a >> 24) ^ At(TD1, (b >> 16) & 0xFF) ^ At(TD2, (c >> 8) & 0xFF) ^ At(TD3, d & 0xFF) ^ k
td_word(a, b, c, d, k) ==
  Xor32x5(At(TD0, Shr(a, 24)), At(TD1, AndFF(Shr(b, 16))),
          At(TD2, AndFF(Shr(c, 8))), At(TD3, Low8(d)), k)

\* a decryption round that reads the words in the order of encryption
dec_round_forward(w, keys, k0) ==
  << td_word(w[1], w[2], w[3], w[4], At(keys, k0)),
     td_word(w[2], w[3], w[4], w[1], At(keys, k0 + 1)),
     td_word(w[3], w[4], w[1], w[2], At(keys, k0 + 2)),
     td_word(w[4], w[1], w[2], w[3], At(keys, k0 + 3)) >>

\* one fused decryption round: the words w XORed into keys[k0 .. k0+3]
dec_round(w, keys, k0) ==
  << td_word(w[1], w[4], w[3], w[2], At(keys, k0)),
     td_word(w[2], w[1], w[4], w[3], At(keys, k0 + 1)),
     td_word(w[3], w[2], w[1], w[4], At(keys, k0 + 2)),
     td_word(w[4], w[3], w[2], w[1], At(keys, k0 + 3)) >>

\* for i in 1..inner_rounds { wa = round(wb, keys[len-4-8i..]);
\*                            wb = round(wa, keys[len-8-8i..]) }
RECURSIVE dec_loop(_, _, _, _, _)
dec_loop(wb, keys, i, inner_rounds, keys_length) ==
  Then(wb,
       IF i >= inner_rounds THEN wb
       ELSE dec_loop(dec_round(dec_round(wb, keys, keys_length - 4 - 8 * i),
                               keys, keys_length - 8 - 8 * i),
                     keys, i + 1, inner_rounds, keys_length))

\* the sixteen bytes of the final decryption round, output[0] first
dec_final(wb, keys) ==
  LET k0 == At(keys, 0)
      k1 == At(keys, 1)
      k2 == At(keys, 2)
      k3 == At(keys, 3)
  IN  << Xor8(At(SINV, Shr(wb[1], 24)),        AndFF(Shr(k0, 24))),
         Xor8(At(SINV, AndFF(Shr(wb[4], 16))), AndFF(Shr(k0, 16))),
         Xor8(At(SINV, AndFF(Shr(wb[3], 8))),  AndFF(Shr(k0, 8))),
         Xor8(At(SINV, Low8(wb[2])),           Low8(k0)),
         Xor8(At(SINV, Shr(wb[2], 24)),        AndFF(Shr(k1, 24))),
         Xor8(At(SINV, AndFF(Shr(wb[1], 16))), AndFF(Shr(k1, 16))),
         Xor8(At(SINV, AndFF(Shr(wb[4], 8))),  AndFF(Shr(k1, 8))),
         Xor8(At(SINV, Low8(wb[3])),           Low8(k1)),
         Xor8(At(SINV, Shr(wb[3], 24)),        AndFF(Shr(k2, 24))),
         Xor8(At(SINV, AndFF(Shr(wb[2], 16))), AndFF(Shr(k2, 16))),
         Xor8(At(SINV, AndFF(Shr(wb[1], 8))),  AndFF(Shr(k2, 8))),
         Xor8(At(SINV, Low8(wb[4])),           Low8(k2)),
         Xor8(At(SINV, Shr(wb[4], 24)),        AndFF(Shr(k3, 24))),
         Xor8(At(SINV, AndFF(Shr(wb[3], 16))), AndFF(Shr(k3, 16))),
         Xor8(At(SINV, AndFF(Shr(wb[2], 8))),  AndFF(Shr(k3, 8))),
         Xor8(At(SINV, Low8(wb[1])),           Low8(k3)) >>

\* the words at the start of every round of decryption_function! from the
\* one that reads $keys[k0] on, down to the round that reads $keys[bottom]
RECURSIVE dec_words(_, _, _, _)
dec_words(w, keys, k0, bottom) ==
  Then(w,
       IF k0 < bottom THEN <<w>>
       ELSE <<w>> \o dec_words(dec_round(w, keys, k0), keys, k0 - 4, bottom))

\* the table indices of decryption_function!: the rounds before the final
\* one read $keys[keys_length - 8] down to $keys[keys_length - 8 * inner_rounds];
\* of the final round only (wb0 as usize) & 0xFF is computed if the output
\* has no index 15
decryption_lookups(wa, keys, inner_rounds, keys_length, output_length) ==
  UNION {UNION {word_lookups(ws[n]) : n \in 1..(Len(ws) - 1)}
           \cup (IF 15 >= output_length THEN {Low8(ws[Len(ws)][1])}
                 ELSE word_lookups(ws[Len(ws)])) :
           ws \in {dec_words(wa, keys, keys_length - 8,
                             keys_length - (8 * inner_rounds))}}

\* Decrypt a block.
decryption_function(mem, input, output, keys, inner_rounds, keys_length) ==
  IF Len(mem[input]) # 128 \div 8
  THEN [panic |-> TRUE, mem |-> mem, reads |-> <<>>]
  ELSE IF Len(mem[keys]) # keys_length
  THEN [panic |-> TRUE, mem |-> mem, reads |-> <<>>]
  ELSE with_reads(
         store_desc(mem, output,
           dec_final(
             dec_loop(dec_round(load_block(mem[input], mem[keys], keys_length - 4),
                                mem[keys], keys_length - 8),
                      mem[keys], 1, inner_rounds, keys_length),
             mem[keys])),
         decryption_reads(Len(mem[output]), inner_rounds, keys_length))

(***************************************************************************)
(* Block entry points.  The in-place ones pass their one buffer as both    *)
(* $input and $output of the macro.                                        *)
(***************************************************************************)
\* the in-place 128bit entry point expanding the macro with the 192bit
\* arguments of its neighbour
block_encrypt128_inplace_192(mem, block, subkeys) ==
  encryption_function(mem, block, block, subkeys, 6, N_SUBKEYS_192BIT)

block_encrypt128_inplace(mem, block, subkeys) ==
  encryption_function(mem, block, block, subkeys, 5, N_SUBKEYS_128BIT)

block_encrypt192_inplace(mem, block, subkeys) ==
  encryption_function(mem, block, block, subkeys, 6, N_SUBKEYS_192BIT)

block_encrypt256_inplace(mem, block, subkeys) ==
  encryption_function(mem, block, block, subkeys, 7, N_SUBKEYS_256BIT)

block_decrypt128_inplace(mem, block, subkeys) ==
  decryption_function(mem, block, block, subkeys, 5, N_SUBKEYS_128BIT)

block_decrypt192_inplace(mem, block, subkeys) ==
  decryption_function(mem, block, block, subkeys, 6, N_SUBKEYS_192BIT)

block_decrypt256_inplace(mem, block, subkeys) ==
  decryption_function(mem, block, block, subkeys, 7, N_SUBKEYS_256BIT)

\* block_encrypt128 expanding the macro with $input and $output exchanged
block_encrypt128_swapped(mem, input, output, subkeys) ==
  encryption_function(mem, output, input, subkeys, 5, N_SUBKEYS_128BIT)

block_encrypt128(mem, input, output, subkeys) ==
  encryption_function(mem, input, output, subkeys, 5, N_SUBKEYS_128BIT)

block_encrypt192(mem, input, output, subkeys) ==
  encryption_function(mem, input, output, subkeys, 6, N_SUBKEYS_192BIT)

block_encrypt256(mem, input, output, subkeys) ==
  encryption_function(mem, input, output, subkeys, 7, N_SUBKEYS_256BIT)

block_decrypt128(mem, input, output, subkeys) ==
  decryption_function(mem, input, output, subkeys, 5, N_SUBKEYS_128BIT)

block_decrypt192(mem, input, output, subkeys) ==
  decryption_function(mem, input, output, subkeys, 6, N_SUBKEYS_192BIT)

block_decrypt256(mem, input, output, subkeys) ==
  decryption_function(mem, input, output, subkeys, 7, N_SUBKEYS_256BIT)

(***************************************************************************)
(* The caller's data.  Keys and blocks of the documentation examples and   *)
(* of FIPS-197, a key whose schedule holds a word of four equal bytes,     *)
(* generated keys and blocks, and slices of unsupported lengths.           *)
(***************************************************************************)
\* number of generated keys
NSeeds == 3

\* number of generated blocks
NBlocks == 1

\* number of calls the caller makes
MaxCalls == 2

\* number of calls a caller makes that calls the entry points in any order
SeqMaxCalls == 3

\* 2B7E151628AED2A6ABF7158809CF4F3C
Key128 ==
  <<43, 126, 21, 22, 40, 174, 210, 166, 171, 247, 21, 136, 9, 207, 79, 60>>

\* 000102 .. 17
Key192 == Tabulate([i \in 1..24 |-> i - 1])

\* 000102 .. 1F
Key256 == Tabulate([i \in 1..32 |-> i - 1])

\* 00000000 62636363 00000000 00000000: the words 0 and 5 of its schedule
\* are 00000000
KeyEqualBytes == <<0, 0, 0, 0, 98, 99, 99, 99, 0, 0, 0, 0, 0, 0, 0, 0>>

\* 3243F6A8885A308D313198A2E0370734
Plain128 ==
  <<50, 67, 246, 168, 136, 90, 48, 141, 49, 49, 152, 162, 224, 55, 7, 52>>

\* 00112233445566778899AABBCCDDEEFF
PlainFF == Tabulate([i \in 1..16 |-> 17 * (i - 1)])

\* 3925841D02DC09FBDC118597196A0B32
Cipher128 ==
  <<57, 37, 132, 29, 2, 220, 9, 251, 220, 17, 133, 151, 25, 106, 11, 50>>

\* DDA97CA4864CDFE06EAF70A0EC0D7191
Cipher192 ==
  <<221, 169, 124, 164, 134, 76, 223, 224, 110, 175, 112, 160, 236, 13, 113, 145>>

\* 8EA2B7CA516745BFEAFC49904B496089
Cipher256 ==
  <<142, 162, 183, 202, 81, 103, 69, 191, 234, 252, 73, 144, 75, 73, 96, 137>>

\* n bytes drawn from the S-box, different for each seed
GenBytes(seed, n) ==
  Tabulate([i \in 1..n |-> At(SBOX, (37 * seed + 101 * i) % 256)])

\* one generated key per seed, the three key lengths in turn
GenKeys == {GenBytes(s, 16 + 8 * (s % 3)) : s \in 1..NSeeds}

\* keys of lengths no entry point supports
BadKeys == {GenBytes(0, n) : n \in {15, 17, 20, 33}}

Origins == {Key128, Key192, Key256, KeyEqualBytes} \cup GenKeys \cup BadKeys

GenBlocks == {GenBytes(100 + s, 16) : s \in 1..NBlocks}

\* blocks that are not 16 bytes long
BadBlocks == {GenBytes(0, n) : n \in {15, 17}}

Blocks ==
  {Plain128, PlainFF, Cipher128, Cipher192, Cipher256}
    \cup GenBlocks \cup BadBlocks

\* the lengths of the u32 buffer the caller allocates for the schedule
BufferLengths == {N_SUBKEYS_128BIT, N_SUBKEYS_192BIT, N_SUBKEYS_256BIT, 45}

\* the lengths of the u8 buffer the caller allocates for the output block
OutputLengths == {15, 16, 17}

(***************************************************************************)
(* The caller.  It owns a key (origin), a block (mem.input), an output     *)
(* buffer (mem.output) and a schedule buffer (mem.subkeys), both zeroed,   *)
(* and calls a key-schedule entry point, then a block entry point, in      *)
(* turn (caller = "pipeline", the usage of the documentation examples), or *)
(* calls the entry points in any order (caller = "free").  A call that     *)
(* panics ends the run; the buffers stay as the panic left them.           *)
(* input_vec is the Vec<u8> the caller hands to the padding functions, and *)
(* threads the state of the threads that share mem.subkeys.  reads is the  *)
(* log of the last block call: the indices at which it read the schedule,  *)
(* in program order, each with its round; steps is the log of the last     *)
(* key-schedule call: its assignments to the schedule, in program order.   *)
(* lookups is the set of the indices into SBOX and TD0..TD3 that the last  *)
(* key-schedule call computed.  hex_arg is the string the caller *)
(* hands to misc::hex, hex_ret the word it returns, and target_endian the  *)
(* byte order of the target the crate is built for.                        *)
(***************************************************************************)
VARIABLES origin, mem, result, last, calls, caller, input_vec, threads,
          reads, steps, lookups, hex_arg, hex_ret, target_endian

vars == <<origin, mem, result, last, calls, caller, input_vec, threads,
          reads, steps, lookups, hex_arg, hex_ret, target_endian>>

Init ==
  /\ origin \in Origins
  /\ mem \in {[input |-> b, output |-> Zeros8(n), subkeys |-> Zeros32(l)] :
                b \in Blocks, n \in OutputLengths, l \in BufferLengths}
  /\ result = "none"
  /\ last = "none"
  /\ calls = 0
  /\ caller = "pipeline"
  /\ input_vec = <<>>
  /\ threads = <<>>
  /\ reads = <<>>
  /\ steps = <<>>
  /\ lookups = {}
  /\ hex_arg = <<>>
  /\ hex_ret = ZeroWord
  /\ target_endian = "little"

\* the number of calls the caller makes
CallBudget == IF caller = "pipeline" THEN MaxCalls ELSE SeqMaxCalls

\* a call of the key-schedule entry point `name` that returns r
KeySchedule(name, r) ==
  /\ result # "panic"
  /\ calls < CallBudget
  /\ caller = "pipeline" => calls % 2 = 0
  /\ mem' = [mem EXCEPT !.subkeys = r.keys]
  /\ result' = IF r.panic THEN "panic" ELSE "ok"
  /\ last' = name
  /\ calls' = calls + 1
  /\ reads' = <<>>
  /\ steps' = r.steps
  /\ lookups' = r.lookups
  /\ UNCHANGED <<origin, caller, input_vec, threads, hex_arg, hex_ret,
               target_endian>>

\* a call of the block entry point `name` that returns r
Block(name, r) ==
  /\ result # "panic"
  /\ calls < CallBudget
  /\ caller = "pipeline" => calls % 2 = 1
  /\ mem' = r.mem
  /\ result' = IF r.panic THEN "panic" ELSE "ok"
  /\ last' = name
  /\ calls' = calls + 1
  /\ reads' = r.reads
  /\ steps' = <<>>
  /\ lookups' = {}
  /\ UNCHANGED <<origin, caller, input_vec, threads, hex_arg, hex_ret,
               target_endian>>

KeyScheduleEncryptAuto ==
  KeySchedule("key_schedule_encrypt_auto",
              key_schedule_encrypt_auto(origin, mem.subkeys))

KeyScheduleEncrypt128 ==
  KeySchedule("key_schedule_encrypt128",
              key_schedule_encrypt128(origin, mem.subkeys))

KeyScheduleEncrypt192 ==
  KeySchedule("key_schedule_encrypt192",
              key_schedule_encrypt192(origin, mem.subkeys))

KeyScheduleEncrypt256 ==
  KeySchedule("key_schedule_encrypt256",
              key_schedule_encrypt256(origin, mem.subkeys))

KeyScheduleDecryptAuto ==
  KeySchedule("key_schedule_decrypt_auto",
              key_schedule_decrypt_auto(origin, mem.subkeys))

KeyScheduleDecrypt128 ==
  KeySchedule("key_schedule_decrypt128",
              key_schedule_decrypt128(origin, mem.subkeys))

KeyScheduleDecrypt192 ==
  KeySchedule("key_schedule_decrypt192",
              key_schedule_decrypt192(origin, mem.subkeys))

KeyScheduleDecrypt256 ==
  KeySchedule("key_schedule_decrypt256",
              key_schedule_decrypt256(origin, mem.subkeys))

BlockEncrypt128Inplace ==
  Block("block_encrypt128_inplace",
        block_encrypt128_inplace(mem, "input", "subkeys"))

BlockEncrypt192Inplace ==
  Block("block_encrypt192_inplace",
        block_encrypt192_inplace(mem, "input", "subkeys"))

BlockEncrypt256Inplace ==
  Block("block_encrypt256_inplace",
        block_encrypt256_inplace(mem, "input", "subkeys"))

BlockDecrypt128Inplace ==
  Block("block_decrypt128_inplace",
        block_decrypt128_inplace(mem, "input", "subkeys"))

BlockDecrypt192Inplace ==
  Block("block_decrypt192_inplace",
        block_decrypt192_inplace(mem, "input", "subkeys"))

BlockDecrypt256Inplace ==
  Block("block_decrypt256_inplace",
        block_decrypt256_inplace(mem, "input", "subkeys"))

BlockEncrypt128 ==
  Block("block_encrypt128", block_encrypt128(mem, "input", "output", "subkeys"))

BlockEncrypt192 ==
  Block("block_encrypt192", block_encrypt192(mem, "input", "output", "subkeys"))

BlockEncrypt256 ==
  Block("block_encrypt256", block_encrypt256(mem, "input", "output", "subkeys"))

BlockDecrypt128 ==
  Block("block_decrypt128", block_decrypt128(mem, "input", "output", "subkeys"))

BlockDecrypt192 ==
  Block("block_decrypt192", block_decrypt192(mem, "input", "output", "subkeys"))

BlockDecrypt256 ==
  Block("block_decrypt256", block_decrypt256(mem, "input", "output", "subkeys"))

Next ==
  \/ KeyScheduleEncryptAuto
  \/ KeyScheduleEncrypt128
  \/ KeyScheduleEncrypt192
  \/ KeyScheduleEncrypt256
  \/ KeyScheduleDecryptAuto
  \/ KeyScheduleDecrypt128
  \/ KeyScheduleDecrypt192
  \/ KeyScheduleDecrypt256
  \/ BlockEncrypt128Inplace
  \/ BlockEncrypt192Inplace
  \/ BlockEncrypt256Inplace
  \/ BlockDecrypt128Inplace
  \/ BlockDecrypt192Inplace
  \/ BlockDecrypt256Inplace
  \/ BlockEncrypt128
  \/ BlockEncrypt192
  \/ BlockEncrypt256
  \/ BlockDecrypt128
  \/ BlockDecrypt192
  \/ BlockDecrypt256

(***************************************************************************)
(* Threads.  Each thread runs one copy entry point, block_encrypt128 or    *)
(* block_decrypt128, on buffers of its own in the caller's memory and on   *)
(* the schedule all threads share; it keeps the working words wa0..wb3,    *)
(* the loop counter and its position in locals.  A step of a thread is one *)
(* statement group of the macro: the asserts, the loading of the block,    *)
(* the first round, one iteration of the loop, one store of the final      *)
(* round.  The steps of the threads interleave in any order.               *)
(***************************************************************************)
\* number of threads
NThreads == 2

\* the buffers of the threads in the caller's memory
InputFields == <<"input1", "input2", "input3">>

OutputFields == <<"output1", "output2", "output3">>

\* the blocks the threads transform
ThreadBlocks == <<Plain128, Cipher128, PlainFF>>

\* the thread encrypts
Encrypts(th) == th.name = "block_encrypt128"

\* a store of the final round that writes the buffer of the first thread,
\* whichever thread runs it
thread_store_shared(m, th) ==
  IF th.k >= Len(m[th.output]) THEN [mem |-> m, th |-> [th EXCEPT !.pc = "panicked"]]
  ELSE [mem |-> [m EXCEPT ![OutputFields[1]] =
                   Put(@, th.k,
                       IF Encrypts(th)
                       THEN enc_final(th.w, m.subkeys, N_SUBKEYS_128BIT)[th.k + 1]
                       ELSE dec_final(th.w, m.subkeys)[th.k + 1])],
        th |-> [th EXCEPT !.k = th.k - 1,
                          !.pc = IF th.k = 0 THEN "done" ELSE "store"]]

\* assert_eq!($input.len(), 128 / 8); assert_eq!($keys.len(), $keys_length);
thread_assert(m, th) ==
  [mem |-> m,
   th |-> [th EXCEPT !.pc = IF Len(m[th.input]) # 128 \div 8 THEN "panicked"
                           ELSE IF Len(m.subkeys) # N_SUBKEYS_128BIT
                                THEN "panicked" ELSE "load"]]

\* let mut wa0 .. wa3 = four_u8_to_u32!($input[..]) ^ $keys[..];
thread_load(m, th) ==
  [mem |-> m,
   th |-> [th EXCEPT !.w = load_block(m[th.input], m.subkeys,
                                      IF Encrypts(th) THEN 0
                                      ELSE N_SUBKEYS_128BIT - 4),
                     !.pc = "round1"]]

\* round 1: let mut wb0 .. wb3 = ..;
thread_round1(m, th) ==
  [mem |-> m,
   th |-> [th EXCEPT !.w = IF Encrypts(th) THEN enc_round(th.w, m.subkeys, 4)
                           ELSE dec_round(th.w, m.subkeys, N_SUBKEYS_128BIT - 8),
                     !.i = 1,
                     !.pc = "loop"]]

\* one iteration of for i in 1..$inner_rounds, $inner_rounds being 5
thread_loop(m, th) ==
  [mem |-> m,
   th |-> [th EXCEPT !.w = IF Encrypts(th)
                           THEN enc_round(enc_round(th.w, m.subkeys, 8 * th.i),
                                          m.subkeys, 8 * th.i + 4)
                           ELSE dec_round(dec_round(th.w, m.subkeys,
                                                    N_SUBKEYS_128BIT - 4 - 8 * th.i),
                                          m.subkeys, N_SUBKEYS_128BIT - 8 - 8 * th.i),
                     !.i = th.i + 1,
                     !.k = 15,
                     !.pc = IF th.i + 1 >= 5 THEN "store" ELSE "loop"]]

\* $output[k] = SBOX[..] ^ ($keys[..] as u8), for k = 15 down to 0
thread_store(m, th) ==
  IF th.k >= Len(m[th.output]) THEN [mem |-> m, th |-> [th EXCEPT !.pc = "panicked"]]
  ELSE [mem |-> [m EXCEPT ![th.output] =
                   Put(@, th.k,
                       IF Encrypts(th)
                       THEN enc_final(th.w, m.subkeys, N_SUBKEYS_128BIT)[th.k + 1]
                       ELSE dec_final(th.w, m.subkeys)[th.k + 1])],
        th |-> [th EXCEPT !.k = th.k - 1,
                          !.pc = IF th.k = 0 THEN "done" ELSE "store"]]

\* the memory of the caller of the threads: the shared schedule S and, for
\* each thread, a block and a zeroed output buffer
ThreadMemory(S) ==
  [f \in {"subkeys"} \cup {InputFields[t] : t \in 1..NThreads}
                     \cup {OutputFields[t] : t \in 1..NThreads} |->
     IF f = "subkeys" THEN S
     ELSE IF \E t \in 1..NThreads : f = InputFields[t]
          THEN ThreadBlocks[CHOOSE t \in 1..NThreads : f = InputFields[t]]
          ELSE Zeros8(16)]

ThreadInit ==
  /\ origin = Key128
  /\ mem \in {ThreadMemory(key_schedule_encrypt128(Key128, Zeros32(N_SUBKEYS_128BIT)).keys),
              ThreadMemory(key_schedule_decrypt128(Key128, Zeros32(N_SUBKEYS_128BIT)).keys)}
  /\ threads = [t \in 1..NThreads |->
                  [name |-> IF t % 2 = 1 THEN "block_encrypt128"
                            ELSE "block_decrypt128",
                   input |-> InputFields[t], output |-> OutputFields[t],
                   pc |-> "assert", w |-> <<>>, i |-> 0, k |-> 0]]
  /\ result = "none"
  /\ last = "none"
  /\ calls = 0
  /\ caller = "threads"
  /\ input_vec = <<>>
  /\ reads = <<>>
  /\ steps = <<>>
  /\ lookups = {}
  /\ hex_arg = <<>>
  /\ hex_ret = ZeroWord
  /\ target_endian = "little"

\* thread t runs its next step, which gives r
ThreadStep(t, at, r) ==
  /\ threads[t].pc = at
  /\ mem' = r.mem
  /\ threads' = [threads EXCEPT ![t] = r.th]
  /\ UNCHANGED <<origin, result, last, calls, caller, input_vec, reads, steps,
               lookups, hex_arg, hex_ret, target_endian>>

ThreadAssert(t) == ThreadStep(t, "assert", thread_assert(mem, threads[t]))

ThreadLoad(t) == ThreadStep(t, "load", thread_load(mem, threads[t]))

ThreadRound1(t) == ThreadStep(t, "round1", thread_round1(mem, threads[t]))

ThreadLoop(t) == ThreadStep(t, "loop", thread_loop(mem, threads[t]))

ThreadStore(t) == ThreadStep(t, "store", thread_store(mem, threads[t]))

ThreadNext ==
  \E t \in DOMAIN threads :
    \/ ThreadAssert(t)
    \/ ThreadLoad(t)
    \/ ThreadRound1(t)
    \/ ThreadLoop(t)
    \/ ThreadStore(t)

ThreadSpec == ThreadInit /\ [][ThreadNext]_vars

(***************************************************************************)
(* padding_128bit.  Each function takes the caller's Vec<u8> by mutable    *)
(* reference; the model gives the vector it leaves and whether the call    *)
(* panicked (Option::unwrap on the None that Vec::pop gives on an empty    *)
(* vector).                                                                *)
(***************************************************************************)
\* vec![v; r]
Repeat(v, r) == Tabulate([i \in 1..r |-> v])

\* 16 - (input_vec.len() & 0b1111)
PadLength(v) == 16 - (Len(v) % 16)

\* input_vec.pop(), its value dropped: an empty vector stays empty
Popped(v) == IF v = <<>> THEN v ELSE SubSeq(v, 1, Len(v) - 1)

\* for _ in 0..n { input_vec.pop(); }: each pop removes the last byte, and
\* a pop of the empty vector gives None and removes nothing, so the loop
\* removes the last n bytes, or all of them when there are fewer
PopTimes(v, n) ==
  IF n <= 0 THEN v
  ELSE IF n >= Len(v) THEN <<>>
  ELSE SubSeq(v, 1, Len(v) - n)

\* PKCS #7 padding that adds nothing to a vector of whole blocks
pa_pkcs7_ifnotcomplete(v) ==
  [panic |-> FALSE,
   vec |-> IF PadLength(v) = 16 THEN v
           ELSE v \o Repeat(PadLength(v) % 256, PadLength(v))]

\* PKCS #7 padding
pa_pkcs7(v) ==
  [panic |-> FALSE, vec |-> v \o Repeat(PadLength(v) % 256, PadLength(v))]

\* ANSIX923 padding that never sets tail[r - 1]
pa_ansix923_unmarked(v) ==
  [panic |-> FALSE, vec |-> v \o Repeat(0, PadLength(v))]

\* ANSIX923 padding
pa_ansix923(v) ==
  [panic |-> FALSE,
   vec |-> v \o [Repeat(0, PadLength(v)) EXCEPT ![PadLength(v)] = PadLength(v) % 256]]

\* depadding whose loop is for _ in 0..r
de_ansix923_pkcs7_from0(v) ==
  IF v = <<>> THEN [panic |-> TRUE, vec |-> v]
  ELSE [panic |-> FALSE, vec |-> PopTimes(Popped(v), v[Len(v)])]

\* ANSIX923 or PKCS #7 depadding
de_ansix923_pkcs7(v) ==
  IF v = <<>> THEN [panic |-> TRUE, vec |-> v]
  ELSE [panic |-> FALSE, vec |-> PopTimes(Popped(v), v[Len(v)] - 1)]

\* Zeros padding with r = len & 0b1111, without the 16 -
pa_zeros_unrounded(v) ==
  [panic |-> FALSE, vec |-> v \o Repeat(0, Len(v) % 16)]

\* Zeros padding
pa_zeros(v) == [panic |-> FALSE, vec |-> v \o Repeat(0, PadLength(v))]

\* Zeros padding only if not complete, without the test r != 16
pa_zeros_ifnotcomplete_always(v) ==
  [panic |-> FALSE, vec |-> v \o Repeat(0, PadLength(v))]

\* Zeros padding only if not complete
pa_zeros_ifnotcomplete(v) ==
  [panic |-> FALSE,
   vec |-> IF PadLength(v) # 16 THEN v \o Repeat(0, PadLength(v)) ELSE v]

\* Zeros depadding: loop { tmp = pop().unwrap(); if tmp != 0 { push(tmp); break; } }
RECURSIVE de_zeros(_)
\* Zeros depadding that does not push the nonzero byte back
RECURSIVE de_zeros_unpushed(_)
de_zeros_unpushed(v) ==
  Then(v,
       IF v = <<>> THEN [panic |-> TRUE, vec |-> v]
       ELSE IF v[Len(v)] # 0 THEN [panic |-> FALSE, vec |-> Popped(v)]
       ELSE de_zeros_unpushed(Popped(v)))

de_zeros(v) ==
  Then(v,
       IF v = <<>> THEN [panic |-> TRUE, vec |-> v]
       ELSE IF v[Len(v)] # 0 THEN [panic |-> FALSE, vec |-> v]
       ELSE de_zeros(Popped(v)))

\* drop_last_block without the arm 0 => 16 of its match
drop_last_block_incomplete(v) ==
  [panic |-> FALSE, vec |-> PopTimes(v, Len(v) % 16)]

\* Drop the last incomplete or complete block.
drop_last_block(v) ==
  [panic |-> FALSE,
   vec |-> PopTimes(v, IF Len(v) % 16 = 0 THEN 16 ELSE Len(v) % 16)]

\* longest vector the caller pads
MaxVecLen == 33

\* number of fillings of the caller's vectors
NFills == 4

\* number of padding calls the caller makes
PadMaxCalls == 2

\* the caller's vector of n bytes with filling p: all FF (the documentation
\* examples), all zero, small bytes with zeros among them, and FF followed
\* by a tail of bytes p - 4 (zeros for p = 4)
FillVec(p, n) ==
  Tabulate([i \in 1..n |->
    CASE p = 1 -> 255
      [] p = 2 -> 0
      [] p = 3 -> (7 * i) % 5
      [] OTHER -> IF 2 * i <= n THEN 255 ELSE p - 4])

PadVectors == {FillVec(p, n) : p \in 1..NFills, n \in 0..MaxVecLen}

\* the caller of the padding functions: it owns a vector and calls the
\* functions on it in any order
PadInit ==
  /\ input_vec \in PadVectors
  /\ result = "none"
  /\ last = "none"
  /\ calls = 0
  /\ caller = "padding"
  /\ origin = <<>>
  /\ mem = [input |-> <<>>, output |-> <<>>, subkeys |-> <<>>]
  /\ threads = <<>>
  /\ reads = <<>>
  /\ steps = <<>>
  /\ lookups = {}
  /\ hex_arg = <<>>
  /\ hex_ret = ZeroWord
  /\ target_endian = "little"

\* a call of the padding function `name` that returns r
Pad(name, r) ==
  /\ result # "panic"
  /\ calls < PadMaxCalls
  /\ input_vec' = r.vec
  /\ result' = IF r.panic THEN "panic" ELSE "ok"
  /\ last' = name
  /\ calls' = calls + 1
  /\ UNCHANGED <<origin, mem, caller, threads, reads, steps, lookups, hex_arg,
               hex_ret, target_endian>>

PaPkcs7 == Pad("pa_pkcs7", pa_pkcs7(input_vec))

PaAnsix923 == Pad("pa_ansix923", pa_ansix923(input_vec))

DeAnsix923Pkcs7 == Pad("de_ansix923_pkcs7", de_ansix923_pkcs7(input_vec))

PaZeros == Pad("pa_zeros", pa_zeros(input_vec))

PaZerosIfnotcomplete ==
  Pad("pa_zeros_ifnotcomplete", pa_zeros_ifnotcomplete(input_vec))

DeZeros == Pad("de_zeros", de_zeros(input_vec))

DropLastBlock == Pad("drop_last_block", drop_last_block(input_vec))

PadNext ==
  \/ PaPkcs7
  \/ PaAnsix923
  \/ DeAnsix923Pkcs7
  \/ PaZeros
  \/ PaZerosIfnotcomplete
  \/ DeZeros
  \/ DropLastBlock

PadSpec == PadInit /\ [][PadNext]_vars

(***************************************************************************)
(* misc::hex.  A string is the sequence of its characters.  The function   *)
(* parses it with u32::from_str_radix(s, 16), unwraps the result and       *)
(* applies u32::to_be, which depends on the byte order of the target.      *)
(***************************************************************************)
LowerDigits ==
  <<"0", "1", "2", "3", "4", "5", "6", "7", "8", "9", "a", "b", "c", "d", "e", "f">>

UpperDigits ==
  <<"0", "1", "2", "3", "4", "5", "6", "7", "8", "9", "A", "B", "C", "D", "E", "F">>

\* char::to_digit(16): the value of a hexadecimal digit of either case,
\* -1 for any other character
to_digit(c) ==
  IF \E d \in 1..16 : LowerDigits[d] = c
  THEN (CHOOSE d \in 1..16 : LowerDigits[d] = c) - 1
  ELSE IF \E d \in 1..16 : UpperDigits[d] = c
  THEN (CHOOSE d \in 1..16 : UpperDigits[d] = c) - 1
  ELSE -1

\* the digits of from_str_radix from position n on, acc being the value of
\* those before: acc * 16 + digit, checked; a character that is no digit
\* and a value above u32::MAX are errors
RECURSIVE parse_digits(_, _, _)
parse_digits(str, n, acc) ==
  IF n > Len(str) THEN [err |-> FALSE, value |-> acc]
  ELSE IF to_digit(str[n]) < 0 THEN [err |-> TRUE, value |-> acc]
  ELSE IF acc[1] >= 4096 THEN [err |-> TRUE, value |-> acc]
  ELSE parse_digits(str, n + 1,
         << (acc[1] * 16) + (acc[2] \div 4096),
            ((acc[2] % 4096) * 16) + to_digit(str[n]) >>)

\* u32::from_str_radix(s, 16): an empty string is an error; one leading
\* "+" is skipped, and is an error if nothing follows it
from_str_radix(str) ==
  IF str = <<>> THEN [err |-> TRUE, value |-> ZeroWord]
  ELSE IF str[1] = "+"
  THEN IF Len(str) = 1 THEN [err |-> TRUE, value |-> ZeroWord]
       ELSE parse_digits(str, 2, ZeroWord)
  ELSE parse_digits(str, 1, ZeroWord)

\* u32::swap_bytes
swap_bytes(x) ==
  << ((x[2] % 256) * 256) + (x[2] \div 256),
     ((x[1] % 256) * 256) + (x[1] \div 256) >>

\* u32::to_be: "On big endian this is a no-op. On little endian the bytes
\* are swapped."
to_be(x, endian) == IF endian = "big" THEN x ELSE swap_bytes(x)

\* Convert hexadecimal string to 32-bit words (u32) using big endian.
hex(str, endian) ==
  IF from_str_radix(str).err THEN [panic |-> TRUE, word |-> ZeroWord]
  ELSE [panic |-> FALSE, word |-> to_be(from_str_radix(str).value, endian)]

\* number of generated strings of eight digits
NHexSeeds == 60

\* the string of the digits ds, in lower case
Chars(ds) == Tabulate([n \in DOMAIN ds |-> LowerDigits[ds[n] + 1]])

\* the strings the caller converts: generated strings of eight digits,
\* the words 01020304 and 1A2B3C4D (the example of four_u8_to_u32!), words
\* that read the same in both byte orders, digits of both cases, shorter
\* strings, a string with a sign, and strings from_str_radix rejects
HexStrings ==
  {Chars([n \in 1..8 |->
      ((seed * ((2 * n) + 1)) + ((seed \div 16) * n * n) + n) % 16]) :
    seed \in 1..NHexSeeds}
    \cup {<<"0", "1", "0", "2", "0", "3", "0", "4">>,
          <<"1", "A", "2", "B", "3", "C", "4", "D">>,
          <<"d", "e", "a", "d", "B", "E", "E", "F">>,
          <<"0", "0", "0", "0", "0", "0", "0", "0">>,
          <<"f", "f", "f", "f", "f", "f", "f", "f">>,
          <<"a", "b", "c", "d", "c", "d", "a", "b">>,
          <<"f", "f">>,
          <<"+", "1", "2", "3", "4", "5", "6", "7">>,
          <<"1", "0", "0", "0", "0", "0", "0", "0", "0">>,
          <<"0", "x", "0", "1", "0", "2", "0", "3">>,
          <<"-", "1">>,
          <<"+">>,
          <<>>}

\* the caller of misc::hex, on a target of either byte order
HexInit ==
  /\ hex_arg \in HexStrings
  /\ target_endian \in {"little", "big"}
  /\ hex_ret = ZeroWord
  /\ result = "none"
  /\ last = "none"
  /\ calls = 0
  /\ caller = "hex"
  /\ origin = <<>>
  /\ mem = [input |-> <<>>, output |-> <<>>, subkeys |-> <<>>]
  /\ input_vec = <<>>
  /\ threads = <<>>
  /\ reads = <<>>
  /\ steps = <<>>
  /\ lookups = {}

\* the call hex(hex_arg)
Hex ==
  /\ result = "none"
  /\ hex_ret' = hex(hex_arg, target_endian).word
  /\ result' = IF hex(hex_arg, target_endian).panic THEN "panic" ELSE "ok"
  /\ last' = "hex"
  /\ calls' = calls + 1
  /\ UNCHANGED <<origin, mem, caller, input_vec, threads, reads, steps,
                 lookups, hex_arg, target_endian>>

HexNext == Hex

HexSpec == HexInit /\ [][HexNext]_vars

Spec == Init /\ [][Next]_vars

\* the caller that calls the entry points in any order: a documented key, the
\* documented block and zeroed buffers of the lengths the key asks for
SeqInit ==
  /\ origin \in {Key128, Key192, Key256}
  /\ mem = [input |-> Plain128, output |-> Zeros8(16),
            subkeys |-> Zeros32(4 * ((Len(origin) \div 4) + 7))]
  /\ result = "none"
  /\ last = "none"
  /\ calls = 0
  /\ caller = "free"
  /\ input_vec = <<>>
  /\ threads = <<>>
  /\ reads = <<>>
  /\ steps = <<>>
  /\ lookups = {}
  /\ hex_arg = <<>>
  /\ hex_ret = ZeroWord
  /\ target_endian = "little"

SeqSpec == SeqInit /\ [][Next]_vars

(***************************************************************************)
(* FIPS-197, as the standard states it: the state is sixteen bytes, the    *)
(* byte of row r and column c at position r + 4c + 1; a schedule word is   *)
(* read as its four bytes, most significant first.                         *)
(***************************************************************************)
WordBytes(w) == <<w[1] \div 256, w[1] % 256, w[2] \div 256, w[2] % 256>>

PackBytes(b) == <<256 * b[1] + b[2], 256 * b[3] + b[4]>>

XorBytes(a, b) ==
  <<Xor8(a[1], b[1]), Xor8(a[2], b[2]), Xor8(a[3], b[3]), Xor8(a[4], b[4])>>

FipsSubWord(b) ==
  <<At(SBOX, b[1]), At(SBOX, b[2]), At(SBOX, b[3]), At(SBOX, b[4])>>

FipsRotWord(b) == <<b[2], b[3], b[4], b[1]>>

\* the word XORed with w[i - Nk] to give w[i], prev being w[i - 1]
FipsTemp(i, Nk, prev) ==
  IF i % Nk = 0
  THEN XorBytes(FipsSubWord(FipsRotWord(prev)),
                <<At(RC, (i \div Nk) - 1), 0, 0, 0>>)
  ELSE IF Nk = 8 /\ i % 8 = 4 THEN FipsSubWord(prev)
  ELSE prev

\* w is the key expansion of the key K
IsKeyExpansion(K, w) ==
  /\ Len(K) \in {16, 24, 32}
  /\ Len(w) = Len(K) + 28
  /\ \A i \in 0..(Len(w) - 1) :
       WordBytes(At(w, i)) =
         IF i < Len(K) \div 4
         THEN <<At(K, 4 * i), At(K, 4 * i + 1), At(K, 4 * i + 2), At(K, 4 * i + 3)>>
         ELSE XorBytes(WordBytes(At(w, i - Len(K) \div 4)),
                       FipsTemp(i, Len(K) \div 4, WordBytes(At(w, i - 1))))

FipsSubBytes(s) == Tabulate([p \in 1..16 |-> At(SBOX, s[p])])

FipsInvSubBytes(s) == Tabulate([p \in 1..16 |-> At(SINV, s[p])])

\* row r is rotated left by r columns
FipsShiftRows(s) ==
  Tabulate([p \in 1..16 |->
              s[((p - 1) % 4) + 4 * ((((p - 1) \div 4) + ((p - 1) % 4)) % 4) + 1]])

\* row r is rotated right by r columns
FipsInvShiftRows(s) ==
  Tabulate([p \in 1..16 |->
              s[((p - 1) % 4) + 4 * ((((p - 1) \div 4) + 4 - ((p - 1) % 4)) % 4) + 1]])

\* the byte of row (r + k) mod 4 in the column of position p
ColumnByte(s, p, k) == s[4 * ((p - 1) \div 4) + ((((p - 1) % 4) + k) % 4) + 1]

\* each column multiplied by the matrix circ(02, 03, 01, 01)
FipsMixColumns(s) ==
  Tabulate([p \in 1..16 |->
              Xor8(Xor8(GMul(2, ColumnByte(s, p, 0)), GMul(3, ColumnByte(s, p, 1))),
                   Xor8(ColumnByte(s, p, 2), ColumnByte(s, p, 3)))])

\* each column multiplied by the matrix circ(0E, 0B, 0D, 09)
FipsInvMixColumns(s) ==
  Tabulate([p \in 1..16 |->
              Xor8(Xor8(GMul(14, ColumnByte(s, p, 0)), GMul(11, ColumnByte(s, p, 1))),
                   Xor8(GMul(13, ColumnByte(s, p, 2)), GMul(9, ColumnByte(s, p, 3))))])

\* InvMixColumns of one column b
FipsInvMixColumn(b) ==
  << Xor8(Xor8(GMul(14, b[1]), GMul(11, b[2])), Xor8(GMul(13, b[3]), GMul(9, b[4]))),
     Xor8(Xor8(GMul(9, b[1]), GMul(14, b[2])), Xor8(GMul(11, b[3]), GMul(13, b[4]))),
     Xor8(Xor8(GMul(13, b[1]), GMul(9, b[2])), Xor8(GMul(14, b[3]), GMul(11, b[4]))),
     Xor8(Xor8(GMul(11, b[1]), GMul(13, b[2])), Xor8(GMul(9, b[3]), GMul(14, b[4]))) >>

\* InvMixColumns of the column held in a schedule word
FipsInvMixWord(w) == PackBytes(FipsInvMixColumn(WordBytes(w)))

\* the state XORed with the words w[4 * round .. 4 * round + 3]
FipsAddRoundKey(s, w, round) ==
  Tabulate([p \in 1..16 |->
              Xor8(s[p],
                   WordBytes(At(w, 4 * round + (p - 1) \div 4))[((p - 1) % 4) + 1])])

\* the rounds round .. Nr - 1 of the cipher
RECURSIVE FipsRounds(_, _, _, _)
FipsRounds(s, w, round, Nr) ==
  Then(s,
       IF round = Nr THEN s
       ELSE FipsRounds(
              FipsAddRoundKey(FipsMixColumns(FipsShiftRows(FipsSubBytes(s))),
                              w, round),
              w, round + 1, Nr))

\* Cipher(in, w) of FIPS-197, section 5.1
FipsCipher(in, w, Nr) ==
  FipsAddRoundKey(
    FipsShiftRows(FipsSubBytes(FipsRounds(FipsAddRoundKey(in, w, 0), w, 1, Nr))),
    w, Nr)

\* the rounds round .. 1 of the inverse cipher
RECURSIVE FipsInvRounds(_, _, _)
FipsInvRounds(s, w, round) ==
  Then(s,
       IF round = 0 THEN s
       ELSE FipsInvRounds(
              FipsInvMixColumns(
                FipsAddRoundKey(FipsInvSubBytes(FipsInvShiftRows(s)), w, round)),
              w, round - 1))

\* InvCipher(in, w) of FIPS-197, section 5.3, w being the plain key expansion
FipsInvCipher(in, w, Nr) ==
  FipsAddRoundKey(
    FipsInvSubBytes(FipsInvShiftRows(
      FipsInvRounds(FipsAddRoundKey(in, w, Nr), w, Nr - 1))),
    w, 0)

(***************************************************************************)
(* The entry points by key size                                            *)
(***************************************************************************)
KeySizes == {128, 192, 256}

\* the number of words of the schedule of an n-bit key
Words(n) ==
  CASE n = 128 -> N_SUBKEYS_128BIT
    [] n = 192 -> N_SUBKEYS_192BIT
    [] n = 256 -> N_SUBKEYS_256BIT

\* the number of rounds of the cipher with an n-bit key
Rounds(n) == (n \div 32) + 6

KeyScheduleEncryptN(n, K, buffer) ==
  CASE n = 128 -> key_schedule_encrypt128(K, buffer)
    [] n = 192 -> key_schedule_encrypt192(K, buffer)
    [] n = 256 -> key_schedule_encrypt256(K, buffer)

KeyScheduleDecryptN(n, K, buffer) ==
  CASE n = 128 -> key_schedule_decrypt128(K, buffer)
    [] n = 192 -> key_schedule_decrypt192(K, buffer)
    [] n = 256 -> key_schedule_decrypt256(K, buffer)

\* the caller's buffers for one block call
Buffers(B, out, S) == [input |-> B, output |-> out, subkeys |-> S]

BlockEncryptN(n, B, out, S) ==
  CASE n = 128 -> block_encrypt128(Buffers(B, out, S), "input", "output", "subkeys")
    [] n = 192 -> block_encrypt192(Buffers(B, out, S), "input", "output", "subkeys")
    [] n = 256 -> block_encrypt256(Buffers(B, out, S), "input", "output", "subkeys")

BlockDecryptN(n, B, out, S) ==
  CASE n = 128 -> block_decrypt128(Buffers(B, out, S), "input", "output", "subkeys")
    [] n = 192 -> block_decrypt192(Buffers(B, out, S), "input", "output", "subkeys")
    [] n = 256 -> block_decrypt256(Buffers(B, out, S), "input", "output", "subkeys")

BlockEncryptInplaceN(n, B, S) ==
  CASE n = 128 -> block_encrypt128_inplace(Buffers(B, <<>>, S), "input", "subkeys")
    [] n = 192 -> block_encrypt192_inplace(Buffers(B, <<>>, S), "input", "subkeys")
    [] n = 256 -> block_encrypt256_inplace(Buffers(B, <<>>, S), "input", "subkeys")

BlockDecryptInplaceN(n, B, S) ==
  CASE n = 128 -> block_decrypt128_inplace(Buffers(B, <<>>, S), "input", "subkeys")
    [] n = 192 -> block_decrypt192_inplace(Buffers(B, <<>>, S), "input", "subkeys")
    [] n = 256 -> block_decrypt256_inplace(Buffers(B, <<>>, S), "input", "subkeys")

EncryptScheduleNames ==
  {"key_schedule_encrypt_auto", "key_schedule_encrypt128",
   "key_schedule_encrypt192", "key_schedule_encrypt256"}

DecryptScheduleNames ==
  {"key_schedule_decrypt_auto", "key_schedule_decrypt128",
   "key_schedule_decrypt192", "key_schedule_decrypt256"}

KeyScheduleNames == EncryptScheduleNames \cup DecryptScheduleNames

InplaceNames ==
  {"block_encrypt128_inplace", "block_encrypt192_inplace",
   "block_encrypt256_inplace", "block_decrypt128_inplace",
   "block_decrypt192_inplace", "block_decrypt256_inplace"}

CopyNames ==
  {"block_encrypt128", "block_encrypt192", "block_encrypt256",
   "block_decrypt128", "block_decrypt192", "block_decrypt256"}

BlockNames == InplaceNames \cup CopyNames

\* the key size in the name of a fixed-size entry point
SizeOf(name) ==
  CASE name \in {"key_schedule_encrypt128", "key_schedule_decrypt128",
                 "block_encrypt128", "block_encrypt128_inplace",
                 "block_decrypt128", "block_decrypt128_inplace"} -> 128
    [] name \in {"key_schedule_encrypt192", "key_schedule_decrypt192",
                 "block_encrypt192", "block_encrypt192_inplace",
                 "block_decrypt192", "block_decrypt192_inplace"} -> 192
    [] name \in {"key_schedule_encrypt256", "key_schedule_decrypt256",
                 "block_encrypt256", "block_encrypt256_inplace",
                 "block_decrypt256", "block_decrypt256_inplace"} -> 256

\* the key-schedule entry point `name` supports keys of len bytes
Supports(name, len) ==
  IF name \in {"key_schedule_encrypt_auto", "key_schedule_decrypt_auto"}
  THEN len \in {16, 24, 32}
  ELSE len = SizeOf(name) \div 8

\* the caller holds a key and a block the entry points of size n accept
Usable(n) ==
  /\ result # "panic"
  /\ Len(origin) = n \div 8
  /\ Len(mem.input) = 16

(***************************************************************************)
(* Properties                                                              *)
(***************************************************************************)
\* C1: round trip.  For each key size N, every key K of the matching length
\* and every 16-byte block B the caller holds, block_decryptN of
\* block_encryptN(B, key_schedule_encryptN(K)) under key_schedule_decryptN(K)
\* returns exactly B, and none of the four calls panics.
C1_RoundTrip ==
  \A n \in KeySizes :
    Usable(n) =>
      \A ek \in {KeyScheduleEncryptN(n, origin, Zeros32(Words(n)))} :
      \A dk \in {KeyScheduleDecryptN(n, origin, Zeros32(Words(n)))} :
        /\ ~ek.panic
        /\ ~dk.panic
        /\ \A c \in {BlockEncryptN(n, mem.input, Zeros8(16), ek.keys)} :
             /\ ~c.panic
             /\ \A p \in {BlockDecryptN(n, c.mem.output, Zeros8(16), dk.keys)} :
                  /\ ~p.panic
                  /\ p.mem.output = mem.input

\* a block_decrypt128 call has returned the block whose encryption under the
\* same key it was given
C1_Witness ==
  /\ last = "block_decrypt128"
  /\ result = "ok"
  /\ origin = Key128
  /\ mem.output = Plain128
  /\ mem.subkeys = key_schedule_decrypt128(origin, Zeros32(44)).keys
  /\ mem.input =
       BlockEncryptN(128, mem.output, Zeros8(16),
                     key_schedule_encrypt128(origin, Zeros32(44)).keys).mem.output

\* C2: encryption is the FIPS-197 cipher.  For each key size, key K and
\* block P, the schedule of key_schedule_encryptN(K) is the key expansion of
\* K and block_encryptN (copy and in place) gives Cipher(P) under it; the
\* three documented key/plaintext pairs give the documented ciphertexts.
C2_EncryptIsFipsCipher ==
  \A n \in KeySizes :
    Usable(n) =>
      \A ek \in {KeyScheduleEncryptN(n, origin, Zeros32(Words(n))).keys} :
      \A c \in {BlockEncryptN(n, mem.input, Zeros8(16), ek).mem.output} :
        /\ IsKeyExpansion(origin, ek)
        /\ c = FipsCipher(mem.input, ek, Rounds(n))
        /\ c = BlockEncryptInplaceN(n, mem.input, ek).mem.input
        /\ (origin = Key128 /\ mem.input = Plain128) => c = Cipher128
        /\ (origin = Key192 /\ mem.input = PlainFF) => c = Cipher192
        /\ (origin = Key256 /\ mem.input = PlainFF) => c = Cipher256

\* block_encrypt128 has written the documented ciphertext
C2_Witness ==
  /\ last = "block_encrypt128"
  /\ result = "ok"
  /\ origin = Key128
  /\ mem.input = Plain128
  /\ mem.output = Cipher128

\* C3: decryption is the FIPS-197 inverse cipher.  For each key size, key K
\* and block C, block_decryptN (copy and in place) under
\* key_schedule_decryptN(K) gives InvCipher(C) under the plain key expansion
\* of K; the three documented ciphertexts decrypt to the documented
\* plaintexts.
C3_DecryptIsFipsInvCipher ==
  \A n \in KeySizes :
    Usable(n) =>
      \A ek \in {KeyScheduleEncryptN(n, origin, Zeros32(Words(n))).keys} :
      \A dk \in {KeyScheduleDecryptN(n, origin, Zeros32(Words(n))).keys} :
      \A p \in {BlockDecryptN(n, mem.input, Zeros8(16), dk).mem.output} :
        /\ IsKeyExpansion(origin, ek)
        /\ p = FipsInvCipher(mem.input, ek, Rounds(n))
        /\ p = BlockDecryptInplaceN(n, mem.input, dk).mem.input
        /\ (origin = Key128 /\ mem.input = Cipher128) => p = Plain128
        /\ (origin = Key192 /\ mem.input = Cipher192) => p = PlainFF
        /\ (origin = Key256 /\ mem.input = Cipher256) => p = PlainFF

\* block_decrypt192 has written the documented plaintext
C3_Witness ==
  /\ last = "block_decrypt192"
  /\ result = "ok"
  /\ origin = Key192
  /\ mem.input = Cipher192
  /\ mem.output = PlainFF

\* C4: the encryption key schedule is the FIPS-197 key expansion.  After
\* every encryption key-schedule call that returns, the buffer holds
\* w[i] = big-endian origin[4i .. 4i+3] for i < Nk and w[i] = w[i-Nk] XOR t
\* for i >= Nk, t being SubWord(RotWord(w[i-1])) XOR RC[i/Nk - 1] when
\* i mod Nk = 0, SubWord(w[i-1]) when Nk = 8 and i mod 8 = 4, and w[i-1]
\* otherwise.
C4_KeyExpansion ==
  (last \in EncryptScheduleNames /\ result = "ok") =>
    IsKeyExpansion(origin, mem.subkeys)

\* key_schedule_encrypt256 has returned: word 12 is word 4 XOR the pure
\* substitution of word 11
C4_Witness ==
  /\ last = "key_schedule_encrypt256"
  /\ result = "ok"
  /\ origin = Key256
  /\ WordBytes(At(mem.subkeys, 12)) =
       XorBytes(WordBytes(At(mem.subkeys, 4)),
                FipsSubWord(WordBytes(At(mem.subkeys, 11))))

\* C5: the decryption schedule.  After every decryption key-schedule call
\* that returns, the first four and the last four words of the buffer are
\* those of the encryption schedule of the same key, and every interior
\* word is InvMixColumns of the encryption-schedule word at its index.
C5_DecryptSchedule ==
  (last \in DecryptScheduleNames /\ result = "ok") =>
    \A ek \in {key_schedule_encrypt_auto(origin, Zeros32(Len(mem.subkeys)))} :
      /\ ~ek.panic
      /\ Len(mem.subkeys) = Len(ek.keys)
      /\ \A j \in 0..(Len(mem.subkeys) - 1) :
           At(mem.subkeys, j) =
             IF j < 4 \/ j > Len(mem.subkeys) - 5 THEN At(ek.keys, j)
             ELSE FipsInvMixWord(At(ek.keys, j))

\* key_schedule_decrypt128 has returned the schedule the test of the source
\* expects: word 4 is 2B3708A7, word 0 is the key's 2B7E1516
C5_Witness ==
  /\ last = "key_schedule_decrypt128"
  /\ result = "ok"
  /\ origin = Key128
  /\ At(mem.subkeys, 4) = <<11063, 2215>>
  /\ At(mem.subkeys, 0) = <<11134, 5398>>

\* the four bytes of the word w are equal
EqualBytes(w) == \A k \in 2..4 : WordBytes(w)[k] = WordBytes(w)[1]

\* C6, as stated: after every decryption key-schedule call that returns,
\* every interior word (indices 4 .. length-5) of the buffer differs from
\* the word of the encryption schedule at the same index.
C6_InteriorWordsDiffer ==
  (last \in DecryptScheduleNames /\ result = "ok") =>
    \A ek \in {key_schedule_encrypt_auto(origin, Zeros32(Len(mem.subkeys))).keys} :
      \A j \in 4..(Len(mem.subkeys) - 5) : At(mem.subkeys, j) # At(ek, j)

\* C6, amended: an interior word of the decryption schedule equals the word
\* of the encryption schedule at the same index exactly when the four bytes
\* of that word are equal, and differs from it otherwise.
C6_InteriorWordsDifferUnlessEqualBytes ==
  (last \in DecryptScheduleNames /\ result = "ok") =>
    \A ek \in {key_schedule_encrypt_auto(origin, Zeros32(Len(mem.subkeys))).keys} :
      \A j \in 4..(Len(mem.subkeys) - 5) :
        (At(mem.subkeys, j) = At(ek, j)) <=> EqualBytes(At(ek, j))

\* key_schedule_decrypt128 has returned a schedule with an interior word of
\* four equal bytes, and one of unequal bytes
C6_Witness ==
  /\ last = "key_schedule_decrypt128"
  /\ result = "ok"
  /\ origin = KeyEqualBytes
  /\ At(mem.subkeys, 5) = ZeroWord
  /\ ~EqualBytes(At(mem.subkeys, 4))

\* C7: a key of unsupported length.  Every key-schedule call with a key
\* whose length the entry point does not support (auto: not 16, 24 or 32;
\* fixed-size: not its own 16, 24 or 32) panics, and leaves every word of
\* the buffer as it was.
C7_BadKeyRejected ==
  [][(last' \in KeyScheduleNames /\ ~Supports(last', Len(origin)))
       => (result' = "panic" /\ mem' = mem)]_vars

\* key_schedule_encrypt_auto has panicked on a key of 20 bytes, the buffer
\* still zeroed
C7_Witness ==
  /\ last = "key_schedule_encrypt_auto"
  /\ result = "panic"
  /\ Len(origin) = 20
  /\ mem.subkeys = Zeros32(Len(mem.subkeys))

\* the number of words of the schedule of a key of len bytes
ExpectedWords(len) ==
  CASE len = 16 -> N_SUBKEYS_128BIT
    [] len = 24 -> N_SUBKEYS_192BIT
    [] len = 32 -> N_SUBKEYS_256BIT

\* C8: a buffer of the wrong length.  Every key-schedule call with a key the
\* entry point supports and a buffer that is not exactly 44/52/60 words for
\* a key of 16/24/32 bytes panics, and leaves the buffer as it was.
C8_BadBufferRejected ==
  [][(/\ last' \in KeyScheduleNames
      /\ Supports(last', Len(origin))
      /\ Len(mem.subkeys) # ExpectedWords(Len(origin)))
       => (result' = "panic" /\ mem' = mem)]_vars

\* key_schedule_decrypt192 has panicked on a buffer of 44 words, the buffer
\* still zeroed
C8_Witness ==
  /\ last = "key_schedule_decrypt192"
  /\ result = "panic"
  /\ Len(origin) = 24
  /\ mem.subkeys = Zeros32(N_SUBKEYS_128BIT)

\* the block call `name` on the buffers m has an input that is not 16
\* bytes, an output that is not 16 bytes, or a schedule of the wrong length
BadBlockCall(name, m) ==
  \/ Len(m.input) # 16
  \/ name \in CopyNames /\ Len(m.output) # 16
  \/ Len(m.subkeys) # Words(SizeOf(name))

\* C9, as stated: every block call whose input is not 16 bytes, whose
\* output buffer is not 16 bytes or whose schedule is not 44/52/60 words for
\* its size panics, with no byte written.
C9_BadBlockCallRejected ==
  [][(last' \in BlockNames /\ BadBlockCall(last', mem))
       => (result' = "panic" /\ mem' = mem)]_vars

\* C10: in place and copy.  For every 16-byte block B and schedule S of the
\* matching length the caller holds after a key-schedule call, the in-place
\* entry point leaves in B's buffer the sixteen bytes the copy entry point
\* writes to a distinct output buffer, for encryption and for decryption.
C10_InplaceIsCopy ==
  \A n \in KeySizes :
    (/\ result = "ok"
     /\ last \in KeyScheduleNames
     /\ Len(mem.input) = 16
     /\ Len(mem.subkeys) = Words(n)) =>
      /\ \A a \in {BlockEncryptInplaceN(n, mem.input, mem.subkeys)} :
         \A b \in {BlockEncryptN(n, mem.input, Zeros8(16), mem.subkeys)} :
           ~a.panic /\ ~b.panic /\ a.mem.input = b.mem.output
      /\ \A a \in {BlockDecryptInplaceN(n, mem.input, mem.subkeys)} :
         \A b \in {BlockDecryptN(n, mem.input, Zeros8(16), mem.subkeys)} :
           ~a.panic /\ ~b.panic /\ a.mem.input = b.mem.output

\* block_encrypt128_inplace has left the documented ciphertext in the buffer
\* that held the plaintext, as block_encrypt128 writes it to an output
C10_Witness ==
  /\ last = "block_encrypt128_inplace"
  /\ result = "ok"
  /\ origin = Key128
  /\ mem.input = Cipher128
  /\ mem.input =
       BlockEncryptN(128, Plain128, Zeros8(16), mem.subkeys).mem.output

\* C11: the auto entry points against the fixed-size ones.  After every call
\* of key_schedule_encrypt_auto (key_schedule_decrypt_auto) with a key of
\* 16, 24 or 32 bytes, the buffer holds word for word what
\* key_schedule_encrypt128/192/256 (key_schedule_decrypt128/192/256) for
\* that length leaves in the same buffer, and the call has panicked exactly
\* when the fixed-size one does.
C11_AutoIsFixedSize ==
  (last \in {"key_schedule_encrypt_auto", "key_schedule_decrypt_auto"}
     /\ Len(origin) \in {16, 24, 32}) =>
    \A r \in {IF last = "key_schedule_encrypt_auto"
              THEN KeyScheduleEncryptN(8 * Len(origin), origin,
                                       Zeros32(Len(mem.subkeys)))
              ELSE KeyScheduleDecryptN(8 * Len(origin), origin,
                                       Zeros32(Len(mem.subkeys)))} :
      /\ mem.subkeys = r.keys
      /\ (result = "panic") <=> r.panic

\* key_schedule_decrypt_auto has returned, for a key of 24 bytes, the
\* schedule of key_schedule_decrypt192
C11_Witness ==
  /\ last = "key_schedule_decrypt_auto"
  /\ result = "ok"
  /\ origin = Key192
  /\ mem.subkeys =
       key_schedule_decrypt192(origin, Zeros32(N_SUBKEYS_192BIT)).keys
  /\ At(mem.subkeys, 4) # At(key_schedule_encrypt192(origin, Zeros32(N_SUBKEYS_192BIT)).keys, 4)

\* C13, as stated: the key schedule of a key of L bytes, L in {16, 24, 32},
\* requires a buffer of exactly 4 * (L/4 + 6 + 4) words: every key-schedule
\* call that returns was given a buffer of that length.
C13_ScheduleLengthAsStated ==
  (last \in KeyScheduleNames /\ result = "ok") =>
    Len(mem.subkeys) = 4 * ((Len(origin) \div 4) + 6 + 4)

\* C13, amended: the key schedule of a key of L bytes, L in {16, 24, 32},
\* requires a buffer of exactly 4 * (L/4 + 6 + 1) words, that is 44, 52 and
\* 60: a key-schedule call with a key the entry point supports returns when
\* the buffer has that length and panics when it has any other.
C13_ScheduleLength ==
  (last \in KeyScheduleNames /\ Supports(last, Len(origin))) =>
    /\ Len(origin) \in {16, 24, 32}
    /\ (result = "ok") <=>
         (Len(mem.subkeys) = 4 * ((Len(origin) \div 4) + 6 + 1))
    /\ 4 * ((Len(origin) \div 4) + 6 + 1) = ExpectedWords(Len(origin))

\* key_schedule_encrypt256 has filled a buffer of 60 words from a key of 32
\* bytes
C13_Witness ==
  /\ last = "key_schedule_encrypt256"
  /\ result = "ok"
  /\ Len(origin) = 32
  /\ Len(mem.subkeys) = 60
  /\ At(mem.subkeys, 59) # ZeroWord

\* the key-schedule entry point `name` called with the key K and the buffer
KeyScheduleCall(name, K, buffer) ==
  CASE name = "key_schedule_encrypt_auto" -> key_schedule_encrypt_auto(K, buffer)
    [] name = "key_schedule_encrypt128" -> key_schedule_encrypt128(K, buffer)
    [] name = "key_schedule_encrypt192" -> key_schedule_encrypt192(K, buffer)
    [] name = "key_schedule_encrypt256" -> key_schedule_encrypt256(K, buffer)
    [] name = "key_schedule_decrypt_auto" -> key_schedule_decrypt_auto(K, buffer)
    [] name = "key_schedule_decrypt128" -> key_schedule_decrypt128(K, buffer)
    [] name = "key_schedule_decrypt192" -> key_schedule_decrypt192(K, buffer)
    [] name = "key_schedule_decrypt256" -> key_schedule_decrypt256(K, buffer)

\* the block entry point `name` called on the caller's buffers m
BlockCall(name, m) ==
  CASE name = "block_encrypt128_inplace" -> block_encrypt128_inplace(m, "input", "subkeys")
    [] name = "block_encrypt192_inplace" -> block_encrypt192_inplace(m, "input", "subkeys")
    [] name = "block_encrypt256_inplace" -> block_encrypt256_inplace(m, "input", "subkeys")
    [] name = "block_decrypt128_inplace" -> block_decrypt128_inplace(m, "input", "subkeys")
    [] name = "block_decrypt192_inplace" -> block_decrypt192_inplace(m, "input", "subkeys")
    [] name = "block_decrypt256_inplace" -> block_decrypt256_inplace(m, "input", "subkeys")
    [] name = "block_encrypt128" -> block_encrypt128(m, "input", "output", "subkeys")
    [] name = "block_encrypt192" -> block_encrypt192(m, "input", "output", "subkeys")
    [] name = "block_encrypt256" -> block_encrypt256(m, "input", "output", "subkeys")
    [] name = "block_decrypt128" -> block_decrypt128(m, "input", "output", "subkeys")
    [] name = "block_decrypt192" -> block_decrypt192(m, "input", "output", "subkeys")
    [] name = "block_decrypt256" -> block_decrypt256(m, "input", "output", "subkeys")

\* C12: key scheduling is deterministic.  Whatever the buffer held before
\* the call (zeros, or the schedule an earlier call left in it), every
\* key-schedule call gives the outcome and leaves the words that the same
\* entry point gives for the same key on a zeroed buffer; so two calls with
\* the same key agree, whatever their buffers held.
C12_ScheduleDeterministic ==
  [][last' \in KeyScheduleNames =>
       \A r \in {KeyScheduleCall(last', origin, Zeros32(Len(mem.subkeys)))} :
         /\ (result' = "panic") <=> r.panic
         /\ result' = "ok" => mem'.subkeys = r.keys]_vars

\* key_schedule_encrypt128 has returned the encryption schedule in a buffer
\* that held a schedule and not zeros: the call before it was a
\* key-schedule call that returned (no block call has touched the input or
\* the output)
C12_Witness ==
  /\ caller = "free"
  /\ calls = 2
  /\ last = "key_schedule_encrypt128"
  /\ result = "ok"
  /\ origin = Key128
  /\ mem.input = Plain128
  /\ mem.output = Zeros8(16)
  /\ mem.subkeys = key_schedule_encrypt128(origin, Zeros32(44)).keys

\* the sixteen bytes the block entry point `name` leaves in the buffers m:
\* the block buffer of an in-place entry point, the first sixteen bytes of
\* the output buffer of a copy entry point
Transformed(name, m) ==
  IF name \in InplaceNames THEN m.input
  ELSE Tabulate([i \in 1..16 |-> m.output[i]])

\* C14: a block transform is a pure function of block, schedule and
\* direction.  Every block call that returns, whatever key-schedule and
\* block calls came before it, leaves the sixteen bytes that the same entry
\* point gives as a first call on the same block and schedule with a zeroed
\* output buffer, and a call panics exactly when that first call does.
C14_BlockTransformPure ==
  [][last' \in BlockNames =>
       \A r \in {BlockCall(last', [input |-> mem.input,
                                   output |-> Zeros8(Len(mem.output)),
                                   subkeys |-> mem.subkeys])} :
         /\ (result' = "panic") <=> r.panic
         /\ result' = "ok" =>
              Transformed(last', mem') = Transformed(last', r.mem)]_vars

\* block_encrypt128 has returned as the third call, after a key-schedule
\* call and an in-place encryption that left the documented ciphertext in
\* the block buffer: the output is the encryption of that ciphertext
C14_Witness ==
  /\ caller = "free"
  /\ calls = 3
  /\ last = "block_encrypt128"
  /\ result = "ok"
  /\ origin = Key128
  /\ mem.input = Cipher128
  /\ mem.subkeys = key_schedule_encrypt128(origin, Zeros32(44)).keys
  /\ mem.output =
       BlockEncryptN(128, Cipher128, Zeros8(16), mem.subkeys).mem.output

\* the output thread th obtains when it runs alone: its entry point called
\* on its block and the shared schedule, with a zeroed output buffer
ThreadAlone(th) ==
  BlockCall(th.name, [input |-> mem[th.input], output |-> Zeros8(16),
                      subkeys |-> mem.subkeys]).mem.output

\* C15: threads sharing a schedule.  Under every interleaving of the steps
\* of the threads, a thread that has finished holds in its output buffer
\* the output it obtains when it runs alone, no thread panics, and a step
\* of a thread changes nothing but that thread's locals and its own output
\* buffer: not the shared schedule, not a block, not another thread's
\* output or locals.
C15_ThreadsIndependent ==
  /\ [](\A t \in DOMAIN threads :
          /\ threads[t].pc # "panicked"
          /\ threads[t].pc = "done" =>
               mem[threads[t].output] = ThreadAlone(threads[t]))
  /\ [][\A t \in DOMAIN threads :
          threads'[t] # threads[t] =>
            /\ \A f \in DOMAIN mem :
                 f # threads[t].output => mem'[f] = mem[f]
            /\ \A u \in DOMAIN threads \ {t} : threads'[u] = threads[u]]_vars

\* the first thread has finished with the documented ciphertext in its
\* buffer while the second is in the middle of the stores of its final
\* round
C15_Witness ==
  /\ caller = "threads"
  /\ threads[1].pc = "done"
  /\ mem[threads[1].output] = Cipher128
  /\ threads[2].pc = "store"
  /\ threads[2].k = 7
  /\ mem[threads[2].output] # Zeros8(16)

\* C16: pa_pkcs7.  Every call of pa_pkcs7 on a vector of n bytes returns
\* with the vector grown by exactly N = 16 - (n mod 16) bytes, 1 <= N <= 16
\* (sixteen when n is a multiple of 16), each added byte being N, and the
\* first n bytes as they were.
C16_PaPkcs7 ==
  [][last' = "pa_pkcs7" =>
       /\ result' = "ok"
       /\ 16 - (Len(input_vec) % 16) \in 1..16
       /\ Len(input_vec') = Len(input_vec) + (16 - (Len(input_vec) % 16))
       /\ Len(input_vec') % 16 = 0
       /\ \A i \in 1..Len(input_vec) : input_vec'[i] = input_vec[i]
       /\ \A i \in (Len(input_vec) + 1)..Len(input_vec') :
            input_vec'[i] = 16 - (Len(input_vec) % 16)]_vars

\* pa_pkcs7 has added a block of sixteen bytes 0x10 to sixteen bytes FF
C16_Witness ==
  /\ last = "pa_pkcs7"
  /\ calls = 1
  /\ result = "ok"
  /\ input_vec = Repeat(255, 16) \o Repeat(16, 16)

\* C17: pa_ansix923.  Every call of pa_ansix923 on a vector of n bytes
\* returns with the vector grown by exactly N = 16 - (n mod 16) bytes,
\* 1 <= N <= 16, the first N - 1 of them zero and the last one N, and the
\* first n bytes as they were.
C17_PaAnsix923 ==
  [][last' = "pa_ansix923" =>
       /\ result' = "ok"
       /\ 16 - (Len(input_vec) % 16) \in 1..16
       /\ Len(input_vec') = Len(input_vec) + (16 - (Len(input_vec) % 16))
       /\ \A i \in 1..Len(input_vec) : input_vec'[i] = input_vec[i]
       /\ \A i \in (Len(input_vec) + 1)..(Len(input_vec') - 1) :
            input_vec'[i] = 0
       /\ input_vec'[Len(input_vec')] = 16 - (Len(input_vec) % 16)]_vars

\* pa_ansix923 has added eight zeros and a byte 09 to seven bytes FF, as in
\* the documentation example
C17_Witness ==
  /\ last = "pa_ansix923"
  /\ calls = 1
  /\ result = "ok"
  /\ input_vec = Repeat(255, 7) \o Repeat(0, 8) \o <<9>>

\* C18: depadding inverts both paddings.  For every vector v the caller
\* holds, the empty one and those of whole blocks included,
\* de_ansix923_pkcs7 applied to what pa_pkcs7 makes of v returns v, and
\* applied to what pa_ansix923 makes of v returns v; none of the calls
\* panics.
C18_DepaddingInverts ==
  result # "panic" =>
    /\ \A p \in {pa_pkcs7(input_vec)} :
       \A d \in {de_ansix923_pkcs7(p.vec)} :
         ~p.panic /\ ~d.panic /\ d.vec = input_vec
    /\ \A p \in {pa_ansix923(input_vec)} :
       \A d \in {de_ansix923_pkcs7(p.vec)} :
         ~p.panic /\ ~d.panic /\ d.vec = input_vec

\* de_ansix923_pkcs7 has returned, as the second call, the sixteen bytes FF
\* that a padding call had grown by a whole block
C18_Witness ==
  /\ last = "de_ansix923_pkcs7"
  /\ calls = 2
  /\ result = "ok"
  /\ input_vec = Repeat(255, 16)

\* C19: the two zero paddings.  Every call of pa_zeros on a vector of n
\* bytes appends 16 - (n mod 16) zero bytes, sixteen when n is a multiple of
\* 16; every call of pa_zeros_ifnotcomplete appends the same zeros when n
\* is not a multiple of 16 and leaves the vector as it was when n is one,
\* n = 0 included.  Both leave the first n bytes as they were.
C19_ZeroPaddings ==
  [][/\ last' = "pa_zeros" =>
          /\ result' = "ok"
          /\ input_vec' = input_vec \o Repeat(0, 16 - (Len(input_vec) % 16))
     /\ last' = "pa_zeros_ifnotcomplete" =>
          /\ result' = "ok"
          /\ input_vec' =
               IF Len(input_vec) % 16 = 0 THEN input_vec
               ELSE input_vec \o Repeat(0, 16 - (Len(input_vec) % 16))]_vars

\* pa_zeros_ifnotcomplete has left sixteen bytes FF as they were
C19_Witness ==
  /\ last = "pa_zeros_ifnotcomplete"
  /\ calls = 1
  /\ result = "ok"
  /\ input_vec = Repeat(255, 16)

\* the longest prefix of v that does not end in a zero byte
RECURSIVE Stripped(_)
Stripped(v) ==
  IF v = <<>> \/ v[Len(v)] # 0 THEN v
  ELSE Stripped(SubSeq(v, 1, Len(v) - 1))

\* C20, as stated: every call of de_zeros, on any vector, returns with the
\* longest prefix of the vector that does not end in a zero byte.
C20_DeZerosStrips ==
  [][last' = "de_zeros" =>
       /\ result' = "ok"
       /\ input_vec' = Stripped(input_vec)]_vars

\* C21: drop_last_block.  Every call of drop_last_block returns; on a vector
\* of n >= 1 bytes it leaves the first n - (n mod 16) bytes as they were
\* when n is not a multiple of 16 and the first n - 16 bytes when it is, and
\* nothing else; on the empty vector it leaves the empty vector.
C21_DropLastBlock ==
  [][last' = "drop_last_block" =>
       /\ result' = "ok"
       /\ input_vec = <<>> => input_vec' = <<>>
       /\ (Len(input_vec) >= 1 /\ Len(input_vec) % 16 # 0) =>
            input_vec' =
              SubSeq(input_vec, 1, Len(input_vec) - (Len(input_vec) % 16))
       /\ (Len(input_vec) >= 1 /\ Len(input_vec) % 16 = 0) =>
            input_vec' = SubSeq(input_vec, 1, Len(input_vec) - 16)]_vars

\* drop_last_block has dropped, as the second call, the whole block that
\* pa_pkcs7 had added to sixteen bytes FF
C21_Witness ==
  /\ last = "drop_last_block"
  /\ calls = 2
  /\ result = "ok"
  /\ input_vec = Repeat(255, 16)

\* the functions of padding_128bit that leave whole blocks
BlockMakers ==
  {"pa_pkcs7", "pa_ansix923", "pa_zeros", "pa_zeros_ifnotcomplete",
   "drop_last_block"}

\* C22: whole blocks.  Every call of pa_pkcs7, pa_ansix923, pa_zeros,
\* pa_zeros_ifnotcomplete or drop_last_block, on whatever vector the caller
\* holds (one of its own or one that earlier calls have left), returns with
\* a vector whose length is a multiple of 16; so the length is a multiple
\* of 16 after every non-empty sequence of such calls.
C22_WholeBlocks ==
  [][last' \in BlockMakers =>
       /\ result' = "ok"
       /\ Len(input_vec') % 16 = 0]_vars

\* pa_zeros has added a block of zeros, as the second call, to the two
\* blocks pa_pkcs7 had made of sixteen bytes FF
C22_Witness ==
  /\ last = "pa_zeros"
  /\ calls = 2
  /\ result = "ok"
  /\ input_vec = Repeat(255, 16) \o Repeat(16, 16) \o Repeat(0, 16)

EncryptBlockNames ==
  {"block_encrypt128", "block_encrypt192", "block_encrypt256",
   "block_encrypt128_inplace", "block_encrypt192_inplace",
   "block_encrypt256_inplace"}

\* the number of reads of schedule word k in the log
ReadsOf(k) == Cardinality({j \in DOMAIN reads : reads[j][2] = k})

\* the first word of the group that round r uses, the rounds counted
\* 0 .. Nr: group r of an encryption, group Nr - r of a decryption
GroupOf(name, r, Nr) ==
  IF name \in EncryptBlockNames THEN 4 * r ELSE 4 * (Nr - r)

\* C23, as stated: a block transform that returns has read each word of
\* the schedule exactly once.
C23_EachWordReadOnce ==
  (last \in BlockNames /\ result = "ok") =>
    \A k \in 0..(Words(SizeOf(last)) - 1) : ReadsOf(k) = 1

\* C23: the order of the schedule reads.  A block transform that returns
\* has run the rounds 0 .. Nr in order, Nr = 10, 12, 14 for 128, 192,
\* 256-bit keys, and ends with round Nr; every read of round r is of a word
\* of one group of four, group r (words 4r .. 4r+3) for an encryption and
\* group Nr - r for a decryption, so that every word is read in exactly one
\* round; the whitening and the Nr - 1 table rounds read each word of their
\* group once, in ascending order; the final round reads each word of its
\* group four times, once for each output byte, from the highest word down.
C23_ReadOrder ==
  (last \in BlockNames /\ result = "ok") =>
    \A Nr \in {Rounds(SizeOf(last))} :
      /\ reads # <<>>
      /\ reads[1][1] = 0
      /\ reads[Len(reads)][1] = Nr
      /\ {reads[j][1] : j \in DOMAIN reads} = 0..Nr
      /\ \A j \in DOMAIN reads :
           reads[j][2] - GroupOf(last, reads[j][1], Nr) \in 0..3
      /\ \A j \in 1..(Len(reads) - 1) :
           /\ reads[j][1] <= reads[j + 1][1]
           /\ (reads[j][1] = reads[j + 1][1] /\ reads[j][1] < Nr) =>
                reads[j + 1][2] = reads[j][2] + 1
           /\ (reads[j][1] = Nr) => reads[j + 1][2] <= reads[j][2]
      /\ \A k \in 0..(Words(SizeOf(last)) - 1) :
           ReadsOf(k) = IF k - GroupOf(last, Nr, Nr) \in 0..3 THEN 4 ELSE 1

\* block_encrypt256 has returned: its log holds the 56 reads of the
\* whitening and of thirteen table rounds and the sixteen reads of the final
\* round, the last one of word 56 in round 14
C23_Witness ==
  /\ last = "block_encrypt256"
  /\ result = "ok"
  /\ Len(reads) = 72
  /\ reads[72] = <<14, 56>>

\* the number of assignments of the log that are in part `at` of the macro
\* with loop counter i
StepsAt(at, i) ==
  Cardinality({j \in DOMAIN steps : steps[j].at = at /\ steps[j].i = i})

\* the groups of words the key schedule derived: the iterations of its loop
\* and, where it has them, the assignments after the loop
DerivedGroups ==
  {<<steps[j].at, steps[j].i>> :
     j \in {n \in DOMAIN steps : steps[n].at \in {"loop", "tail"}}}

\* C24, as stated: after copying the raw key, a key-schedule call that
\* returns has derived exactly (scheduleLength - L/4) / (L/4) groups of
\* words, and each of them is a complete group of L/4 words.
C24_GroupsAsStated ==
  (last \in KeyScheduleNames /\ result = "ok") =>
    \A Nk \in {Len(origin) \div 4} :
      /\ Cardinality(DerivedGroups) * Nk = Len(mem.subkeys) - Nk
      /\ \A g \in DerivedGroups : StepsAt(g[1], g[2]) = Nk

\* C24: the groups the key schedule derives.  A key-schedule call that
\* returns has copied the raw key into words 0 .. Nk-1 (Nk = L/4) and then
\* assigned each of the words Nk .. scheduleLength-1 once, in ascending
\* order; its loop derives G complete groups of Nk words, G the whole part
\* of (scheduleLength - Nk) / Nk, which is 10, 7, 6 for 128, 192, 256-bit
\* keys, iteration i assigning the words Nk(i+1) .. Nk(i+1)+Nk-1; the
\* remaining (scheduleLength - Nk) mod Nk words, 0, 4, 4 of them, are
\* assigned after the loop and make no complete group.
C24_Groups ==
  (last \in KeyScheduleNames /\ result = "ok") =>
    \A Nk \in {Len(origin) \div 4} :
    \A G \in {(Len(mem.subkeys) - Nk) \div Nk} :
      /\ G = (CASE Nk = 4 -> 10 [] Nk = 6 -> 7 [] Nk = 8 -> 6)
      /\ (Len(mem.subkeys) - Nk) % Nk =
           (CASE Nk = 4 -> 0 [] Nk = 6 -> 4 [] Nk = 8 -> 4)
      /\ Len(steps) >= Len(mem.subkeys)
      /\ \A j \in 1..Len(mem.subkeys) :
           /\ steps[j].w = j - 1
           /\ steps[j].at = (IF j - 1 < Nk THEN "load"
                             ELSE IF j - 1 < Nk * (G + 1) THEN "loop"
                             ELSE "tail")
           /\ steps[j].at = "loop" => steps[j].i = ((j - 1) \div Nk) - 1
      /\ \A j \in (Len(mem.subkeys) + 1)..Len(steps) : steps[j].at = "dkey"
      /\ {g[2] : g \in {d \in DerivedGroups : d[1] = "loop"}} = 0..(G - 1)
      /\ \A i \in 0..(G - 1) : StepsAt("loop", i) = Nk
      /\ Cardinality({j \in DOMAIN steps : steps[j].at = "tail"}) =
           (Len(mem.subkeys) - Nk) % Nk

\* key_schedule_encrypt192 has returned: after the seven groups of its loop
\* it has assigned the words 48 .. 51, four words of an eighth group of six
C24_Witness ==
  /\ last = "key_schedule_encrypt192"
  /\ result = "ok"
  /\ Len(steps) = 52
  /\ StepsAt("loop", 6) = 6
  /\ StepsAt("tail", 7) = 4
  /\ steps[52].w = 51

\* C25: a short output buffer.  Every call of a copy entry point
\* (block_encryptN, block_decryptN) with an input of 16 bytes, a schedule of
\* the length the entry point asks for and an output buffer of fewer than
\* 16 bytes panics, and leaves every byte of the output buffer, and the
\* caller's other buffers, as they were.
C25_ShortOutputUnwritten ==
  [][(/\ last' \in CopyNames
      /\ Len(mem.input) = 16
      /\ Len(mem.subkeys) = Words(SizeOf(last'))
      /\ Len(mem.output) < 16) =>
       /\ result' = "panic"
       /\ mem'.output = mem.output
       /\ mem' = mem]_vars

\* block_decrypt192 has panicked on an output buffer of fifteen bytes after
\* it ran its rounds up to the first statement of the final round, and the
\* fifteen bytes are the zeros the caller put there
C25_Witness ==
  /\ last = "block_decrypt192"
  /\ result = "panic"
  /\ Len(mem.input) = 16
  /\ Len(mem.subkeys) = N_SUBKEYS_192BIT
  /\ mem.output = Zeros8(15)
  /\ Len(reads) = 49
  /\ reads[49] = <<12, 3>>

\* C26: frame.  Every call of a copy entry point that returns leaves the
\* input block and every word of the schedule as they were, keeps the
\* length of the output buffer and changes none of its bytes after the
\* sixteenth; every call of an in-place entry point leaves every word of
\* the schedule as it was; every call of a key-schedule entry point leaves
\* the raw key as it was.
C26_Frame ==
  [][/\ (last' \in CopyNames /\ result' = "ok") =>
          /\ mem'.input = mem.input
          /\ mem'.subkeys = mem.subkeys
          /\ Len(mem'.output) = Len(mem.output)
          /\ \A p \in 17..Len(mem.output) : mem'.output[p] = mem.output[p]
     /\ last' \in InplaceNames =>
          /\ mem'.subkeys = mem.subkeys
          /\ mem'.output = mem.output
     /\ last' \in KeyScheduleNames => origin' = origin]_vars

\* block_encrypt128 has written the documented ciphertext to the first
\* sixteen bytes of an output buffer of seventeen; the seventeenth is the
\* zero it was, and the input still holds the documented plaintext
C26_Witness ==
  /\ last = "block_encrypt128"
  /\ result = "ok"
  /\ origin = Key128
  /\ mem.input = Plain128
  /\ mem.output = Cipher128 \o <<0>>

\* the indices at which the logged key-schedule call read RC
RcReads == UNION {{steps[j].rc[n] : n \in DOMAIN steps[j].rc} : j \in DOMAIN steps}

\* the indices at which the logged key-schedule call wrote or read $keys
KeysTouched ==
  UNION {{steps[j].w} \cup {steps[j].r[n] : n \in DOMAIN steps[j].r} :
           j \in DOMAIN steps}

\* what a key-schedule call that returned has accessed: table indices in
\* 0 .. 255, RC at 0 .. 9, 0 .. 7 or 0 .. 6, every word of the schedule and
\* no other, the key below its length
ScheduleAccessesInRange ==
  (last \in KeyScheduleNames /\ result = "ok") =>
    /\ lookups # {}
    /\ lookups \subseteq 0..255
    /\ RcReads = (CASE Len(origin) = 16 -> 0..9
                    [] Len(origin) = 24 -> 0..7
                    [] Len(origin) = 32 -> 0..6)
    /\ RcReads \subseteq 0..(Len(RC) - 1)
    /\ Len(mem.subkeys) = 4 * ((Len(origin) \div 4) + 7)
    /\ KeysTouched = 0..(Len(mem.subkeys) - 1)
    /\ \A j \in DOMAIN steps : \A n \in DOMAIN steps[j].o :
         steps[j].o[n] \in 0..(Len(origin) - 1)

\* what a block call that returned has read of the schedule: every word
\* of it and no other
BlockReadsInRange ==
  (last \in BlockNames /\ result = "ok") =>
    /\ Len(mem.subkeys) = Words(SizeOf(last))
    /\ {reads[j][2] : j \in DOMAIN reads} = 0..(Len(mem.subkeys) - 1)

\* the table indices the block entry point `name` computes when it is
\* called on the memory m with a block and a schedule of the right lengths
BlockLookups(name, m) ==
  IF name \in EncryptBlockNames
  THEN encryption_lookups(load_block(m.input, m.subkeys, 0), m.subkeys,
                          Rounds(SizeOf(name)) \div 2,
                          IF name \in InplaceNames THEN Len(m.input)
                          ELSE Len(m.output))
  ELSE decryption_lookups(load_block(m.input, m.subkeys, Words(SizeOf(name)) - 4),
                          m.subkeys, Rounds(SizeOf(name)) \div 2,
                          Words(SizeOf(name)),
                          IF name \in InplaceNames THEN Len(m.input)
                          ELSE Len(m.output))

\* C27: no access out of range.  A key-schedule call that returns has
\* computed table indices in 0 .. 255 only, has read RC at exactly the
\* indices 0 .. 9 (16-byte key), 0 .. 7 (24-byte key) or 0 .. 6 (32-byte
\* key), has written and read the schedule only at indices below its length
\* (44, 52, 60) and the key only at indices below the key's length; a block
\* call that returns has read the schedule only at indices below the length
\* of its size; and a block call that passes its assertions, whether it
\* returns or stops at the store to a short output, computes table indices
\* in 0 .. 255 only.
C27_AccessesInRange ==
  [][/\ ScheduleAccessesInRange'
     /\ BlockReadsInRange'
     /\ (/\ last' \in BlockNames
         /\ Len(mem.input) = 16
         /\ Len(mem.subkeys) = Words(SizeOf(last'))) =>
          \A lk \in {BlockLookups(last', mem)} :
            lk # {} /\ lk \subseteq 0..255]_vars

\* key_schedule_decrypt256 has returned: it read RC at 0 .. 6, assigned
\* word 59 and passed the words 4 .. 55 through dkey_mixcolumn!
C27_Witness ==
  /\ last = "key_schedule_decrypt256"
  /\ result = "ok"
  /\ RcReads = 0..6
  /\ 59 \in KeysTouched
  /\ Len(steps) = 60 + 52
  /\ lookups # {}

\* C28: reverse round trip.  For each key size N, every key K of the
\* matching length and every 16-byte block C the caller holds,
\* block_encryptN of block_decryptN(C, key_schedule_decryptN(K)) under
\* key_schedule_encryptN(K) returns exactly C, and none of the four calls
\* panics.
C28_ReverseRoundTrip ==
  \A n \in KeySizes :
    Usable(n) =>
      \A dk \in {KeyScheduleDecryptN(n, origin, Zeros32(Words(n)))} :
      \A ek \in {KeyScheduleEncryptN(n, origin, Zeros32(Words(n)))} :
        /\ ~dk.panic
        /\ ~ek.panic
        /\ \A p \in {BlockDecryptN(n, mem.input, Zeros8(16), dk.keys)} :
             /\ ~p.panic
             /\ \A c \in {BlockEncryptN(n, p.mem.output, Zeros8(16), ek.keys)} :
                  /\ ~c.panic
                  /\ c.mem.output = mem.input

\* a block_encrypt256 call has returned the block whose decryption under
\* the same key it was given
C28_Witness ==
  /\ last = "block_encrypt256"
  /\ result = "ok"
  /\ origin = Key256
  /\ mem.output = Cipher256
  /\ mem.subkeys = key_schedule_encrypt256(origin, Zeros32(60)).keys
  /\ mem.input =
       BlockDecryptN(256, mem.output, Zeros8(16),
                     key_schedule_decrypt256(origin, Zeros32(60)).keys).mem.output

\* C29: zero depadding inverts the zero paddings.  For every non-empty
\* vector v the caller holds whose last byte is not zero, de_zeros applied
\* to what pa_zeros makes of v returns v, and de_zeros applied to what
\* pa_zeros_ifnotcomplete makes of v returns v; none of the calls panics.
C29_DeZerosInverts ==
  (result # "panic" /\ input_vec # <<>> /\ input_vec[Len(input_vec)] # 0) =>
    /\ \A p \in {pa_zeros(input_vec)} :
       \A d \in {de_zeros(p.vec)} :
         ~p.panic /\ ~d.panic /\ d.vec = input_vec
    /\ \A p \in {pa_zeros_ifnotcomplete(input_vec)} :
       \A d \in {de_zeros(p.vec)} :
         ~p.panic /\ ~d.panic /\ d.vec = input_vec

\* de_zeros has returned, as the second call, the seven bytes FF that a
\* zero padding had grown to a block
C29_Witness ==
  /\ last = "de_zeros"
  /\ calls = 2
  /\ result = "ok"
  /\ input_vec = Repeat(255, 7)

\* the string the caller holds is eight hexadecimal digits
EightDigits == Len(hex_arg) = 8 /\ \A n \in 1..8 : to_digit(hex_arg[n]) >= 0

\* the byte the digits at positions n and n + 1 of the caller's string spell
DigitPair(n) == (16 * to_digit(hex_arg[n])) + to_digit(hex_arg[n + 1])

\* the big-endian packing of the caller's eight digits d0..d7: the word
\* whose most significant byte is d0d1 and whose least significant is d6d7
PackedDigits ==
  four_u8_to_u32(DigitPair(1), DigitPair(3), DigitPair(5), DigitPair(7))

\* C30, as stated: misc::hex converts a string of eight hexadecimal digits
\* d0..d7 to the word whose most significant byte is d0d1 and whose least
\* significant byte is d6d7, the packing four_u8_to_u32 gives, and the
\* value is the same on little-endian and big-endian targets.
C30_HexIsBigEndianPacking ==
  (last = "hex" /\ EightDigits) =>
    /\ result = "ok"
    /\ hex_ret = PackedDigits
    /\ hex(hex_arg, "little").word = hex(hex_arg, "big").word

\* what the call returns on each target: the packed word on a big-endian
\* target, the packed word with its bytes swapped on a little-endian one
HexPerTarget ==
  (last = "hex" /\ EightDigits) =>
    /\ result = "ok"
    /\ target_endian = "big" => hex_ret = PackedDigits
    /\ target_endian = "little" => hex_ret = swap_bytes(PackedDigits)

\* hex has returned 04030201 for the string 01020304 on a little-endian
\* target
HexSwapped ==
  /\ last = "hex"
  /\ result = "ok"
  /\ target_endian = "little"
  /\ hex_arg = <<"0", "1", "0", "2", "0", "3", "0", "4">>
  /\ hex_ret = <<1027, 513>>

====
